---- MODULE Spec2Model ----
(***************************************************************************)
(* NSM session orchestration engine: port allocator (platform.PortManager),*)
(* process supervisor (project.Runner), domain resolver (dns.Resolver),    *)
(* certificate provider (cert.Manager), reverse proxy (server.ProxyServer) *)
(* and the orchestrator (app.App) with its setup pipeline and shutdown.    *)
(***************************************************************************)
EXTENDS Integers, Sequences, FiniteSets, TLC

\* ------------------------------------------------------------------ bounds
MaxEphemeral == 2      \* number of ephemeral ports the OS may hand out
MaxPortOps == 4        \* allocator calls per behaviour of SpecPorts
MaxCertOps == 3        \* certificate-store events per behaviour of SpecCert
MaxRequests == 3       \* requests per behaviour of SpecProxy
MaxDnsOps == 3         \* resolver calls per behaviour of SpecDNS

\* ------------------------------------------------------- program constants
Port443 == 443
PreferredHTTPSPort == 8443
NearOffsets == 100
NearLowExclusive == 1024
NearHighExclusive == 65535
EphemeralBase == 49152

EphemeralPorts == EphemeralBase..(EphemeralBase + MaxEphemeral - 1)
NearRange(p) == (p - NearOffsets)..(p + NearOffsets)

\* Sets of ports on which an OS-level bind fails (held by another listener,
\* or not permitted), one of which is the environment of a behaviour.
OsBusyChoices ==
  { {}, {Port443}, {PreferredHTTPSPort},
    {Port443, PreferredHTTPSPort, PreferredHTTPSPort + 1},
    NearRange(PreferredHTTPSPort),
    NearRange(PreferredHTTPSPort) \cup {EphemeralBase} }

PreferredChoices == {Port443, PreferredHTTPSPort, EphemeralBase}
ProbePorts == {Port443, PreferredHTTPSPort, PreferredHTTPSPort + 1, EphemeralBase, EphemeralBase + 1}

VARIABLES
  \* platform.PortManager and the operating system's port table
  allocatedPorts,   \* PortManager.allocatedPorts (the keys mapped to true)
  osBusy,           \* ports on which net.Listen fails
  pmLast,           \* the last allocator call: operation, argument, result
  pmOps,            \* number of allocator calls made (SpecPorts only)
  \* project.Runner, its child process and the goroutines around it
  cmdStarted,       \* r.cmd != nil && r.cmd.Process != nil
  childState,       \* "none" | "running" | "zombie" (exited, not reaped) | "reaped"
  childExitCode,    \* exit code of the child once it has exited (-1: killed)
  groupState,       \* other members of the child's process group:
                    \* "none" | "alive" | "exited"
  termDelivered,    \* a termination signal reached the child or its group
  processState,     \* r.cmd.ProcessState: "nil" | "set"
  ctxCancelled,     \* the session context (signal.NotifyContext) is done
  execKilled,       \* os/exec's context watcher has called Process.Kill
  watcher,          \* waitForCompletion goroutine: "none" | "waiting" | "returned"
  stopWaiter,       \* the goroutine of Stop calling cmd.Wait: same values
  doneChan,         \* Stop's channel done: "empty" | "full"
  stopPc,           \* position of Runner.Stop
  stopResult,       \* what Stop returned: "none" | "ok" | "error"
  termCalls,        \* termination-signal calls made by Stop
  killCalls,        \* force-kill calls made by Stop
  killFailed,       \* the force-kill call of Stop returned an error
  timedOut,         \* Stop took the time.After(10s) branch
  exitEvents,       \* exit codes of the ProcessExitMsg events sent
  pc,               \* position of the caller (App.Run, or the harness)
  \* the environment of a session
  mkcertInstalled,  \* exec.LookPath("mkcert") succeeds
  platform,         \* runtime.GOOS: "darwin" | "linux" | "other"
  dnsmasqInstalled, \* exec.LookPath("dnsmasq") succeeds
  portFile,         \* <ProjectDir>/.nsm-ports.json exists
  rival,            \* another program that wants the session's public port:
                    \* "none" | "waiting" | "listening"
  \* app.App
  mode,             \* "interactive" (Run: program and runner set) | "headless"
  cfg,              \* a.cfg, the fields the orchestrator reads and writes
  httpPort,         \* a.httpPort
  httpsPort,        \* a.httpsPort
  running,          \* a.running
  result,           \* how Run / RunHeadless ended ("none" while it runs)
  failStep,         \* the step named by the error returned by runSetup
  failKind,         \* "failed" (the step's error is wrapped) | "timeout"
  stepIdx,          \* index in steps of the runSetup loop
  stepTask,         \* per step: "idle" | "running" | "ok" | "err" (Execute returned)
  stepDone,         \* channel stepDone of the current step: "empty" | "ok" | "err"
  selChoice,        \* case taken by the select of runSetup: "done" | "timer" | "cancel"
  events,           \* the messages sent to the UI program, in order
  teardownLog,      \* begin / end of each teardown action of shutdown
  errs,             \* errs of shutdown: the teardown steps that failed
  \* cert.Manager and its certificate store
  certFile,         \* state of the stored pair of the session domain
  mkcertRuns,       \* invocations of the certificate-authority tool
  certLog,          \* the EnsureCertificate calls and store changes, in order
  \* dns.Resolver and the hosts overlay of the forwarder
  dnsConfigured,    \* r.configured
  hostsEntries,     \* number of lines "127.0.0.1 <domain>" in the overlay
  dnsCalled,        \* the resolver methods called so far
  dnsSetupRes,      \* what Setup returned: "none" | "ok" | "err"
  dnsTestRes,       \* what Test returned: "none" | "ok" | "err"
  dnsLog,           \* the Setup / Cleanup calls made on one resolver, in order
  \* server.ProxyServer
  proxyServer,      \* a.proxyServer: "nil" | "created"
  proxyListener,    \* "none" | "starting" | "bound" | "serving" | "bind_failed" |
                    \* "cert_failed" | "failed" | "closed"
  backend,          \* what a connection to the backend port meets:
                    \* "refusing" | "accepting" | "broken"
  reqLog            \* the requests handled by the proxy, with their responses

pmVars == <<allocatedPorts, osBusy, pmLast, pmOps>>
procVars == <<cmdStarted, childState, childExitCode, groupState, termDelivered,
              processState, execKilled, watcher, exitEvents>>
stopVars == <<stopWaiter, doneChan, stopPc, stopResult, termCalls, killCalls,
              killFailed, timedOut>>
runnerVars == <<procVars, stopVars>>
envVars == <<mkcertInstalled, platform, dnsmasqInstalled, portFile, rival>>
appVars == <<mode, cfg, httpPort, httpsPort, running, result, failStep, failKind>>
setupVars == <<stepIdx, stepTask, stepDone, selChoice>>
sdVars == <<teardownLog, errs>>
certVars == <<certFile, mkcertRuns, certLog>>
dnsVars == <<dnsConfigured, hostsEntries, dnsCalled, dnsSetupRes, dnsTestRes, dnsLog>>
proxyVars == <<proxyServer, proxyListener, backend, reqLog>>
orchVars == <<envVars, appVars, setupVars, events, sdVars, certVars, dnsVars,
              proxyVars>>
vars == <<pmVars, runnerVars, ctxCancelled, pc, orchVars>>
\* everything but the allocator / but the supervisor
notPm == <<runnerVars, ctxCancelled, pc, orchVars>>
notRunner == <<pmVars, pc, orchVars>>

NoCall == [op |-> "none", arg |-> 0, ok |-> TRUE, ret |-> 0, pre |-> {}]

Min(S) == CHOOSE x \in S : \A y \in S : x <= y

\* ------------------------------------------------- platform.PortManager
\* A probe that forgets the allocator's own reservations.
IsPortAvailableProbeOnly(alloc, port) == port \notin osBusy

\* IsPortAvailable: not reserved in this allocator and the bind probe works.
IsPortAvailable(alloc, port) ==
  IF port \in alloc THEN FALSE
  ELSE IF port \in osBusy THEN FALSE
  ELSE TRUE

\* CanUsePort443: bind probe of :443 only, the reservations are not read.
CanUsePort443 == Port443 \notin osBusy

\* The ports net.Listen(":0") may return: any ephemeral port the OS can
\* bind.  The OS does not know the allocator's reservations.
ListenAny(alloc) == EphemeralPorts \ osBusy

\* A release that clears the whole map.
ReleasePortAll(alloc, port) == {}

\* ReleasePort: delete(pm.allocatedPorts, port)
ReleasePort(alloc, port) == alloc \ {port}

\* A search that tries the lower neighbour before the upper one.
NearCandidateLowerFirst(preferred, i) ==
  IF i % 2 = 1 THEN preferred - ((i + 1) \div 2) ELSE preferred + (i \div 2)

\* The candidates of FindFreePortNear after the preferred port, in order:
\* preferred+1, preferred-1, preferred+2, preferred-2, ...
NearCandidate(preferred, i) ==
  IF i % 2 = 1 THEN preferred + ((i + 1) \div 2) ELSE preferred - (i \div 2)

NearAcceptable(alloc, port) ==
  port > NearLowExclusive /\ port < NearHighExclusive /\ IsPortAvailable(alloc, port)

\* A search that applies the range test of the neighbours to the preferred
\* port as well.
FindNearRangeChecked(alloc, preferred) ==
  IF NearAcceptable(alloc, preferred) THEN preferred
  ELSE LET hits == {i \in 1..(2 * NearOffsets) :
                      NearAcceptable(alloc, NearCandidate(preferred, i))}
       IN IF hits = {} THEN 0 ELSE NearCandidate(preferred, Min(hits))

\* FindFreePortNear up to the fallback: the port chosen, or 0 when the
\* search is exhausted and FindFreePort is called.
FindNear(alloc, preferred) ==
  IF IsPortAvailable(alloc, preferred) THEN preferred
  ELSE LET hits == {i \in 1..(2 * NearOffsets) :
                      NearAcceptable(alloc, NearCandidate(preferred, i))}
       IN IF hits = {} THEN 0 ELSE NearCandidate(preferred, Min(hits))

\* FindFreePort: the possible results of one call.  net.Listen(":0") can
\* fail; when it succeeds the port is recorded in allocatedPorts.
FindFreePort(alloc) ==
  {[ok |-> TRUE, port |-> p] : p \in ListenAny(alloc)} \cup {[ok |-> FALSE, port |-> 0]}

\* FindFreePortNear: the possible results of one call.
FindFreePortNear(alloc, preferred) ==
  IF FindNear(alloc, preferred) # 0
    THEN {[ok |-> TRUE, port |-> FindNear(alloc, preferred)]}
    ELSE FindFreePort(alloc)

\* The reservations after an allocating call that returned r.
Reserve(alloc, r) == IF r.ok THEN alloc \cup {r.port} ELSE alloc

PM_FindFreePort ==
  /\ pmOps < MaxPortOps
  /\ \E r \in FindFreePort(allocatedPorts) :
       /\ allocatedPorts' = Reserve(allocatedPorts, r)
       /\ pmLast' = [op |-> "FindFreePort", arg |-> 0, ok |-> r.ok, ret |-> r.port,
                     pre |-> allocatedPorts]
  /\ pmOps' = pmOps + 1
  /\ UNCHANGED <<osBusy, notPm>>

PM_FindFreePortNear ==
  /\ pmOps < MaxPortOps
  /\ \E preferred \in PreferredChoices :
       \E r \in FindFreePortNear(allocatedPorts, preferred) :
         /\ allocatedPorts' = Reserve(allocatedPorts, r)
         /\ pmLast' = [op |-> "FindFreePortNear", arg |-> preferred, ok |-> r.ok,
                       ret |-> r.port, pre |-> allocatedPorts]
  /\ pmOps' = pmOps + 1
  /\ UNCHANGED <<osBusy, notPm>>

PM_IsPortAvailable ==
  /\ pmOps < MaxPortOps
  /\ \E port \in ProbePorts :
       pmLast' = [op |-> "IsPortAvailable", arg |-> port,
                  ok |-> IsPortAvailable(allocatedPorts, port), ret |-> 0,
                  pre |-> allocatedPorts]
  /\ pmOps' = pmOps + 1
  /\ UNCHANGED <<allocatedPorts, osBusy, notPm>>

PM_ReleasePort ==
  /\ pmOps < MaxPortOps
  /\ \E port \in ProbePorts :
       /\ allocatedPorts' = ReleasePort(allocatedPorts, port)
       /\ pmLast' = [op |-> "ReleasePort", arg |-> port, ok |-> TRUE, ret |-> 0,
                     pre |-> allocatedPorts]
  /\ pmOps' = pmOps + 1
  /\ UNCHANGED <<osBusy, notPm>>

StepNames == <<"validate", "ports", "certs", "dns">>
StepSet == {StepNames[i] : i \in 1..Len(StepNames)}
StepIndex(name) == CHOOSE i \in 1..Len(StepNames) : StepNames[i] = name

\* The domains of the sessions and calls checked.
DomainChoices == {"", "localhost", "app.dev"}

\* What ParseFromFlags builds with no flags for a project with a custom
\* domain.
BaseCfg == [HTTPPort |-> 0, HTTPSPort |-> 0, UsePort443 |-> TRUE, EnableHTTPS |-> TRUE,
            EnableDNS |-> TRUE, EnableProxy |-> TRUE, Domain |-> "app.dev",
            CertPath |-> "", KeyPath |-> ""]

NoCfg == [HTTPPort |-> 0, HTTPSPort |-> 0, UsePort443 |-> FALSE, EnableHTTPS |-> FALSE,
          EnableDNS |-> FALSE, EnableProxy |-> FALSE, Domain |-> "", CertPath |-> "",
          KeyPath |-> ""]

\* The orchestrator's variables in the specifications that exercise one
\* component alone.
OrchRest ==
  /\ mkcertInstalled = TRUE
  /\ platform = "linux"
  /\ dnsmasqInstalled = TRUE
  /\ portFile = FALSE
  /\ rival = "none"
  /\ mode = "interactive"
  /\ httpPort = 0
  /\ httpsPort = 0
  /\ running = FALSE
  /\ result = "none"
  /\ failStep = "none"
  /\ failKind = "none"
  /\ stepIdx = 1
  /\ stepTask = [n \in StepSet |-> "idle"]
  /\ stepDone = "empty"
  /\ selChoice = "none"
  /\ events = <<>>
  /\ teardownLog = <<>>
  /\ errs = <<>>
  /\ dnsConfigured = FALSE
  /\ hostsEntries = 0
  /\ dnsCalled = {}
  /\ dnsSetupRes = "none"
  /\ dnsTestRes = "none"
  /\ dnsLog = <<>>
  /\ proxyServer = "nil"
  /\ proxyListener = "none"
  /\ reqLog = <<>>

OrchIdle ==
  /\ backend = "refusing"
  /\ OrchRest
  /\ cfg = NoCfg
  /\ certFile = "missing"
  /\ mkcertRuns = 0
  /\ certLog = <<>>

RunnerInit ==
  /\ cmdStarted = FALSE
  /\ childState = "none"
  /\ childExitCode = 0
  /\ groupState = "none"
  /\ termDelivered = FALSE
  /\ processState = "nil"
  /\ execKilled = FALSE
  /\ watcher = "none"
  /\ exitEvents = <<>>
  /\ stopWaiter = "none"
  /\ doneChan = "empty"
  /\ stopPc = "idle"
  /\ stopResult = "none"
  /\ termCalls = 0
  /\ killCalls = 0
  /\ killFailed = FALSE
  /\ timedOut = FALSE

\* ------------------------------------------------------- project.Runner
\* syscall.Getpgid(r.cmd.Process.Pid) succeeds while the child has not been
\* reaped (a running process or a zombie), and fails with ESRCH afterwards.
GetpgidOk == childState \in {"running", "zombie"}

\* kill(-pgid, sig) reaches a process while the group has a member left.
groupAlive == groupState = "alive"
GroupExists == childState \in {"running", "zombie"} \/ groupAlive

\* A Stop that skips the signal when the group lookup fails.
StopTermBranchNoFallback(lookupOk) == IF lookupOk THEN "term_group" ELSE "spawn"

\* Runner.Stop, lines 105-111: which signal call follows the lookup.
StopTermBranch(lookupOk) == IF lookupOk THEN "term_group" ELSE "term_fallback"

\* Runner.Stop, lines 127-131: which kill call follows the lookup.
StopKillBranch(lookupOk) == IF lookupOk THEN "kill_group" ELSE "kill_fallback"

\* A Stop that reports success after the force-kill.
StopSelectResultAlwaysOk(branch) == "ok"

\* Runner.Stop, line 122 and line 133: the value returned by each branch of
\* the select.
StopSelectResult(branch) == IF branch = "done" THEN "ok" ELSE "error"

\* Runner.Start, from the caller's view: ok is the outcome of cmd.Start().
\* exec.CommandContext refuses to start once the context is done.
RunnerStart(ok) ==
  /\ ok => ~ctxCancelled
  /\ cmdStarted' = ok
  /\ childState' = IF ok THEN "running" ELSE "none"
  /\ groupState' = "none"
  /\ watcher' = IF ok THEN "waiting" ELSE "none"

\* The process ids the OS may give the child.
PidChoices == {4011, 70233}

\* Runner.IsRunning: a started command whose ProcessState no Wait has set.
IsRunning == cmdStarted /\ processState = "nil"

\* Runner.GetPID: r.cmd.Process.Pid once the command was started (pid is
\* the id the OS gave the child), else 0.  Nothing resets r.cmd.
GetPID(pid) == IF cmdStarted THEN pid ELSE 0

\* The child exits on its own (at any time, whether or not it was signalled).
ChildExit ==
  /\ childState = "running"
  /\ childState' = "zombie"
  /\ \E code \in {0, 1} : childExitCode' = code
  /\ UNCHANGED <<cmdStarted, groupState, termDelivered, processState, execKilled,
                 watcher, exitEvents, stopVars, ctxCancelled, notRunner>>

\* The child forks a process, which stays in the child's process group.
GroupSpawn ==
  /\ childState = "running" /\ groupState = "none"
  /\ groupState' = "alive"
  /\ UNCHANGED <<cmdStarted, childState, childExitCode, termDelivered, processState,
                 execKilled, watcher, exitEvents, stopVars, ctxCancelled, notRunner>>

\* The other members of the process group exit.
GroupExit ==
  /\ groupAlive
  /\ groupState' = "exited"
  /\ UNCHANGED <<cmdStarted, childState, childExitCode, termDelivered, processState,
                 execKilled, watcher, exitEvents, stopVars, ctxCancelled, notRunner>>

\* os/exec: the command was made with exec.CommandContext, so once the
\* context is done the child alone (not its group) gets Process.Kill.
ExecCtxKill ==
  /\ ctxCancelled /\ cmdStarted /\ ~execKilled
  /\ childState \in {"running", "zombie"}
  /\ execKilled' = TRUE
  /\ childState' = "zombie"
  /\ childExitCode' = IF childState = "running" THEN -1 ELSE childExitCode
  /\ UNCHANGED <<cmdStarted, groupState, termDelivered, processState, watcher,
                 exitEvents, stopVars, ctxCancelled, notRunner>>

\* waitForCompletion: r.cmd.Wait() returns once the child has exited; it
\* reaps the child, or finds it reaped by the other Wait and gets an error.
\* Both Wait calls assign r.cmd.ProcessState without synchronisation.
WaitForCompletion ==
  /\ watcher = "waiting"
  /\ \/ /\ childState = "zombie"
        /\ childState' = "reaped"
        /\ processState' = "set"
        /\ exitEvents' = Append(exitEvents, childExitCode)
     \/ /\ childState = "reaped"
        /\ childState' = childState
        /\ \E ps \in {"nil", "set"} :
             /\ processState' = ps
             /\ exitEvents' = Append(exitEvents, IF ps = "set" THEN childExitCode ELSE 0)
  /\ watcher' = "returned"
  /\ UNCHANGED <<cmdStarted, childExitCode, groupState, termDelivered, execKilled,
                 stopVars, ctxCancelled, notRunner>>

\* Runner.Stop, lines 98-100 and the lookup of line 105.
StopEnter ==
  /\ pc \in {"harness", "sd_runner_call"}
  /\ stopPc = "idle"
  /\ IF ~cmdStarted
       THEN stopPc' = "returned" /\ stopResult' = "ok"
       ELSE stopPc' = StopTermBranch(GetpgidOk) /\ stopResult' = stopResult
  /\ UNCHANGED <<procVars, stopWaiter, doneChan, termCalls, killCalls, killFailed,
                 timedOut, ctxCancelled, notRunner>>

\* syscall.Kill(-pgid, syscall.SIGTERM)
StopTermGroup ==
  /\ stopPc = "term_group"
  /\ termCalls' = termCalls + 1
  /\ termDelivered' = (termDelivered \/ GroupExists)
  /\ stopPc' = "spawn"
  /\ UNCHANGED <<cmdStarted, childState, childExitCode, groupState, processState,
                 execKilled, watcher, exitEvents, stopWaiter, doneChan, stopResult,
                 killCalls, killFailed, timedOut, ctxCancelled, notRunner>>

\* r.cmd.Process.Signal(os.Interrupt): os.Process refuses once the process
\* is done, and signals the child alone otherwise.
StopTermFallback ==
  /\ stopPc = "term_fallback"
  /\ termCalls' = termCalls + 1
  /\ termDelivered' = (termDelivered \/ childState \in {"running", "zombie"})
  /\ stopPc' = "spawn"
  /\ UNCHANGED <<cmdStarted, childState, childExitCode, groupState, processState,
                 execKilled, watcher, exitEvents, stopWaiter, doneChan, stopResult,
                 killCalls, killFailed, timedOut, ctxCancelled, notRunner>>

\* go func() { done <- r.cmd.Wait() }()
StopSpawnWait ==
  /\ stopPc = "spawn"
  /\ stopWaiter' = "waiting"
  /\ stopPc' = "wait"
  /\ UNCHANGED <<procVars, doneChan, stopResult, termCalls, killCalls, killFailed,
                 timedOut, ctxCancelled, notRunner>>

\* The goroutine of Stop: cmd.Wait returns at once when ProcessState is set
\* ("Wait was already called"), reaps a zombie, or fails on a reaped child.
StopWait ==
  /\ stopWaiter = "waiting"
  /\ \/ /\ processState = "set"
        /\ UNCHANGED <<childState, processState>>
     \/ /\ processState = "nil" /\ childState = "zombie"
        /\ childState' = "reaped"
        /\ processState' = "set"
     \/ /\ processState = "nil" /\ childState = "reaped"
        /\ UNCHANGED <<childState, processState>>
  /\ stopWaiter' = "returned"
  /\ doneChan' = "full"
  /\ UNCHANGED <<cmdStarted, childExitCode, groupState, termDelivered, execKilled,
                 watcher, exitEvents, stopPc, stopResult, termCalls, killCalls,
                 killFailed, timedOut, ctxCancelled, notRunner>>

\* select: case <-done
StopDone ==
  /\ stopPc = "wait" /\ doneChan = "full"
  /\ stopResult' = StopSelectResult("done")
  /\ stopPc' = "returned"
  /\ UNCHANGED <<procVars, stopWaiter, doneChan, termCalls, killCalls, killFailed,
                 timedOut, ctxCancelled, notRunner>>

\* select: case <-time.After(10 * time.Second).  The grace period expires
\* with the child still running: cmd.Wait has not returned, done is empty.
StopTimeout ==
  /\ stopPc = "wait" /\ doneChan = "empty"
  /\ childState = "running"
  /\ timedOut' = TRUE
  /\ stopPc' = "kill_lookup"
  /\ UNCHANGED <<procVars, stopWaiter, doneChan, stopResult, termCalls, killCalls,
                 killFailed, ctxCancelled, notRunner>>

\* The lookup of line 127.
StopKillLookup ==
  /\ stopPc = "kill_lookup"
  /\ stopPc' = StopKillBranch(GetpgidOk)
  /\ UNCHANGED <<procVars, stopWaiter, doneChan, stopResult, termCalls, killCalls,
                 killFailed, timedOut, ctxCancelled, notRunner>>

\* syscall.Kill(-pgid, syscall.SIGKILL), then the return of line 133.
StopKillGroup ==
  /\ stopPc = "kill_group"
  /\ killCalls' = killCalls + 1
  /\ killFailed' = ~GroupExists
  /\ childState' = IF childState = "running" THEN "zombie" ELSE childState
  /\ childExitCode' = IF childState = "running" THEN -1 ELSE childExitCode
  /\ groupState' = IF groupAlive THEN "exited" ELSE groupState
  /\ stopResult' = StopSelectResult("timeout")
  /\ stopPc' = "returned"
  /\ UNCHANGED <<cmdStarted, termDelivered, processState, execKilled, watcher,
                 exitEvents, stopWaiter, doneChan, termCalls, timedOut,
                 ctxCancelled, notRunner>>

\* r.cmd.Process.Kill(), then the return of line 133.
StopKillFallback ==
  /\ stopPc = "kill_fallback"
  /\ killCalls' = killCalls + 1
  /\ killFailed' = (childState \notin {"running", "zombie"})
  /\ childState' = IF childState = "running" THEN "zombie" ELSE childState
  /\ childExitCode' = IF childState = "running" THEN -1 ELSE childExitCode
  /\ stopResult' = StopSelectResult("timeout")
  /\ stopPc' = "returned"
  /\ UNCHANGED <<cmdStarted, groupState, termDelivered, processState, execKilled,
                 watcher, exitEvents, stopWaiter, doneChan, termCalls, timedOut,
                 ctxCancelled, notRunner>>

\* The session context is cancelled (SIGINT / SIGTERM to nsm).
\* A select of runSetup that is parked is woken by the first of its cases
\* to become ready: stepCtx is done as soon as its parent is.
CtxCancel ==
  /\ ~ctxCancelled
  /\ result = "none"
  /\ ctxCancelled' = TRUE
  /\ IF pc = "setup_parked"
       THEN pc' = "setup_woken" /\ selChoice' = "cancel"
       ELSE UNCHANGED <<pc, selChoice>>
  /\ UNCHANGED <<runnerVars, pmVars, envVars, appVars, stepIdx, stepTask, stepDone,
                 events, sdVars, certVars, dnsVars, proxyVars>>

\* A caller that starts the supervisor once and stops it once.
HarnessStart ==
  /\ pc = "harness" /\ stopPc = "idle" /\ ~cmdStarted /\ watcher = "none"
  /\ childState = "none"
  /\ \E ok \in BOOLEAN : RunnerStart(ok)
  /\ UNCHANGED <<childExitCode, termDelivered, processState, execKilled, exitEvents,
                 stopVars, ctxCancelled, notRunner>>

\* ------------------------------------------------------------ cert.Manager
\* The stored pair at the domain's paths: absent, good, or failing one of
\* the checks of validateCertificate (PEM / X.509 parsing, NotAfter,
\* VerifyHostname, LoadX509KeyPair).
CertKinds == {"missing", "valid", "expired", "unparseable", "wronghost", "mismatched"}

\* certificateExists / validateCertificate on the stored pair.
CertificateExists(file) == file # "missing"

\* A validation that does not look at NotAfter.
ValidateCertificateIgnoresExpiry(file) == file \in {"valid", "expired"}

\* A validation that rejects every stored pair.
ValidateCertificateNever(file) == FALSE

ValidateCertificate(file) == file = "valid"

\* The deterministic, domain-derived paths of EnsureCertificate.
CertDomain(domain) == IF domain = "" \/ domain = "localhost" THEN "localhost" ELSE domain
CertPathOf(domain) == IF CertDomain(domain) = "localhost" THEN "certs/localhost.pem"
                      ELSE "certs/app.dev.pem"
KeyPathOf(domain) == IF CertDomain(domain) = "localhost" THEN "certs/localhost-key.pem"
                     ELSE "certs/app.dev-key.pem"

\* createCertificate: how a run of the certificate-authority tool can end
\* for the stored pair file: the tool fails ("failed"), it succeeds and the
\* pair is there ("ok"), or it succeeds and certificateExists finds no
\* pair ("nofiles", when there was none before).
CreateCertificate(file) ==
  {"ok", "failed"} \cup (IF CertificateExists(file) THEN {} ELSE {"nofiles"})

\* An EnsureCertificate that returns the error of a failed validation.
EnsureCertificateAbortsOnInvalid(file, domain, force) ==
  LET checked == ~force /\ CertificateExists(file)
      res(ok, mint) == [ok |-> ok, created |-> ok /\ mint = "ok",
                        file |-> IF mint = "ok" THEN "valid" ELSE file,
                        minted |-> mint # "none", mint |-> mint, validated |-> checked,
                        certPath |-> IF ok THEN CertPathOf(domain) ELSE "",
                        keyPath |-> IF ok THEN KeyPathOf(domain) ELSE ""]
  IN IF checked
       THEN IF file = "valid" THEN {res(TRUE, "none")} ELSE {res(FALSE, "none")}
       ELSE {res(mint = "ok", mint) : mint \in CreateCertificate(file)}

\* EnsureCertificate: the possible results of one call on the stored pair
\* file: the error or record returned (nil, so no paths, with an error), the
\* pair afterwards, whether validateCertificate ran, and whether and how
\* the certificate-authority tool ran.
EnsureCertificate(file, domain, force) ==
  LET checked == ~force /\ CertificateExists(file)
      res(ok, mint) == [ok |-> ok, created |-> ok /\ mint = "ok",
                        file |-> IF mint = "ok" THEN "valid" ELSE file,
                        minted |-> mint # "none", mint |-> mint, validated |-> checked,
                        certPath |-> IF ok THEN CertPathOf(domain) ELSE "",
                        keyPath |-> IF ok THEN KeyPathOf(domain) ELSE ""]
  IN IF checked /\ ValidateCertificate(file)
       THEN {res(TRUE, "none")}
       ELSE {res(mint = "ok", mint) : mint \in CreateCertificate(file)}

\* What certLog keeps of a call (with the stored pair it found) and of a
\* change made to the store by something else.
CertCall(file, domain, force, r) ==
  [op |-> "EnsureCertificate", stored |-> file, domain |-> domain, force |-> force,
   ok |-> r.ok, created |-> r.created, minted |-> r.minted, mint |-> r.mint,
   validated |-> r.validated, certPath |-> r.certPath, keyPath |-> r.keyPath]
CertChanged ==
  [op |-> "changed", stored |-> "", domain |-> "", force |-> FALSE, ok |-> TRUE,
   created |-> FALSE, minted |-> FALSE, mint |-> "none", validated |-> FALSE,
   certPath |-> "", keyPath |-> ""]

\* A caller of the manager: EnsureCertificate for the configured domain.
CM_EnsureCertificate ==
  /\ pc = "certs" /\ Len(certLog) < MaxCertOps
  /\ \E force \in BOOLEAN : \E r \in EnsureCertificate(certFile, cfg.Domain, force) :
       /\ certFile' = r.file
       /\ mkcertRuns' = IF r.minted THEN mkcertRuns + 1 ELSE mkcertRuns
       /\ certLog' = Append(certLog, CertCall(certFile, cfg.Domain, force, r))
  /\ UNCHANGED <<pmVars, runnerVars, ctxCancelled, pc, envVars, appVars, setupVars,
                 events, sdVars, dnsVars, proxyVars>>

\* Something other than the manager replaces or removes the stored pair,
\* or the pair's NotAfter passes.
CM_StoreChange ==
  /\ pc = "certs" /\ Len(certLog) < MaxCertOps
  /\ certFile' \in CertKinds \ {certFile}
  /\ certLog' = Append(certLog, CertChanged)
  /\ UNCHANGED <<pmVars, runnerVars, ctxCancelled, pc, envVars, appVars, setupVars,
                 events, sdVars, mkcertRuns, dnsVars, proxyVars>>

\* ------------------------------------------------------------ dns.Resolver
\* NewResolver: the empty domain is "localhost".
ResolverDomain == IF cfg.Domain = "" THEN "localhost" ELSE cfg.Domain

\* Resolver.Setup: the possible results (error or not, r.configured and the
\* overlay afterwards).  ensureDnsmasq fails when the daemon is missing or
\* its files cannot be written; addDnsmasqEntry appends the line unless
\* entryExists finds it.
ResolverSetup ==
  LET same(res) == [res |-> res, configured |-> dnsConfigured, entries |-> hostsEntries]
  IN IF ResolverDomain = "localhost" THEN {same("ok")}
     ELSE IF platform = "darwin" THEN
       IF ~dnsmasqInstalled THEN {same("err")}
       ELSE {same("err"),
             [res |-> "ok", configured |-> TRUE,
              entries |-> IF hostsEntries >= 1 THEN hostsEntries ELSE hostsEntries + 1]}
     ELSE IF platform = "linux" THEN
       IF ~dnsmasqInstalled THEN {same("err")} ELSE {same("err"), same("ok")}
     ELSE {same("ok")}

\* Resolver.Test: nil for localhost, else the lookup decides.
ResolverTest == IF ResolverDomain = "localhost" THEN {"ok"} ELSE {"ok", "err"}

\* Resolver.Cleanup: nothing unless configured; removeEntryFromFile drops
\* every line equal to the entry, or fails to open the file.
ResolverCleanup ==
  IF ~dnsConfigured THEN {[res |-> "ok", entries |-> hostsEntries]}
  ELSE IF platform \in {"darwin", "linux"}
    THEN {[res |-> "ok", entries |-> 0], [res |-> "err", entries |-> hostsEntries]}
    ELSE {[res |-> "ok", entries |-> hostsEntries]}

\* What dnsLog keeps of a call: the result, the number of mapping lines of
\* the domain before and after, and r.configured before the call.
DnsCall(op, res, post) ==
  [op |-> op, res |-> res, pre |-> hostsEntries, post |-> post, was |-> dnsConfigured]

\* A caller of one resolver: Setup.
DNS_Setup ==
  /\ pc = "dns" /\ Len(dnsLog) < MaxDnsOps
  /\ \E s \in ResolverSetup :
       /\ dnsConfigured' = s.configured
       /\ hostsEntries' = s.entries
       /\ dnsSetupRes' = s.res
       /\ dnsLog' = Append(dnsLog, DnsCall("Setup", s.res, s.entries))
  /\ dnsCalled' = dnsCalled \cup {"Setup"}
  /\ UNCHANGED <<pmVars, runnerVars, ctxCancelled, pc, envVars, appVars, setupVars,
                 events, sdVars, certVars, dnsTestRes, proxyVars>>

\* A caller of one resolver: Cleanup.
DNS_Cleanup ==
  /\ pc = "dns" /\ Len(dnsLog) < MaxDnsOps
  /\ \E c \in ResolverCleanup :
       /\ hostsEntries' = c.entries
       /\ dnsLog' = Append(dnsLog, DnsCall("Cleanup", c.res, c.entries))
  /\ dnsCalled' = dnsCalled \cup {"Cleanup"}
  /\ UNCHANGED <<pmVars, runnerVars, ctxCancelled, pc, envVars, appVars, setupVars,
                 events, sdVars, certVars, dnsConfigured, dnsSetupRes, dnsTestRes,
                 proxyVars>>

InitDNS ==
  /\ backend = "refusing"
  /\ allocatedPorts = {}
  /\ osBusy = {}
  /\ pmLast = NoCall
  /\ pmOps = 0
  /\ RunnerInit
  /\ ctxCancelled = FALSE
  /\ pc = "dns"
  /\ mkcertInstalled = TRUE
  /\ platform \in {"darwin", "linux", "other"}
  /\ dnsmasqInstalled \in BOOLEAN
  /\ portFile = FALSE
  /\ rival = "none"
  /\ mode = "interactive"
  /\ \E d \in DomainChoices : cfg = [BaseCfg EXCEPT !.Domain = d]
  /\ httpPort = 0 /\ httpsPort = 0
  /\ running = FALSE /\ result = "none" /\ failStep = "none" /\ failKind = "none"
  /\ stepIdx = 1 /\ stepTask = [n \in StepSet |-> "idle"]
  /\ stepDone = "empty" /\ selChoice = "none"
  /\ events = <<>> /\ teardownLog = <<>> /\ errs = <<>>
  /\ certFile = "missing" /\ mkcertRuns = 0 /\ certLog = <<>>
  /\ dnsConfigured = FALSE
  /\ hostsEntries \in 0..2
  /\ dnsCalled = {} /\ dnsSetupRes = "none" /\ dnsTestRes = "none" /\ dnsLog = <<>>
  /\ proxyServer = "nil" /\ proxyListener = "none"
  /\ reqLog = <<>>

NextDNS ==
  \/ DNS_Setup
  \/ DNS_Cleanup

SpecDNS == InitDNS /\ [][NextDNS]_vars

\* The calls of dnsLog made for a domain other than localhost on a platform
\* with a configuration path.
ManagedCalls(op) ==
  {i \in 1..Len(dnsLog) :
     /\ dnsLog[i].op = op /\ ResolverDomain # "localhost"
     /\ platform \in {"darwin", "linux"}}

\* C31: after a Setup that succeeded, the overlay holds the mapping line of
\* the domain exactly once when it held it at most once before, however
\* many Setup calls were made.
C31_EntryOnceAfterSetup ==
  \A i \in ManagedCalls("Setup") :
    (dnsLog[i].res = "ok" /\ dnsLog[i].pre <= 1) => dnsLog[i].post = 1

\* C32: Cleanup removes the line its own Setup added and nothing else: a
\* Setup followed by a Cleanup leaves the lines as they were before the
\* Setup, a Cleanup with no successful Setup before it changes nothing, and
\* a second Cleanup changes nothing more.
C32_CleanupUndoesSetup ==
  /\ \A i \in ManagedCalls("Cleanup") :
        /\ (\A j \in 1..(i - 1) : ~(dnsLog[j].op = "Setup" /\ dnsLog[j].res = "ok"))
              => dnsLog[i].post = dnsLog[i].pre
        /\ (i > 1 /\ dnsLog[i - 1].op = "Cleanup" /\ dnsLog[i - 1].res = "ok")
              => dnsLog[i].post = dnsLog[i].pre
  /\ \A i \in ManagedCalls("Setup") :
        (/\ i < Len(dnsLog) /\ dnsLog[i].res = "ok" /\ ~dnsLog[i].was
         /\ dnsLog[i + 1].op = "Cleanup" /\ dnsLog[i + 1].res = "ok")
           => dnsLog[i + 1].post = dnsLog[i].pre

\* ----------------------------------------------------------------- app.App
\* a.program.Send guarded by `if a.program != nil`.
Emit(msgs) == IF mode = "interactive" THEN events \o msgs ELSE events

\* A NewManager that does not look for the certificate-authority tool.
\* (NewApp, below, is followed by the entry of Run / RunHeadless.)  cert.NewManager
\* fails when the certificate-authority tool is not on PATH.
NewManagerIgnoresTool(installed) == "ok"

\* cert.NewManager: exec.LookPath("mkcert") decides.
NewManager(installed) == IF installed THEN "ok" ELSE "err"

NewApp ==
  /\ pc = "new_app"
  /\ IF NewManager(mkcertInstalled) = "ok"
       THEN pc' = "setup_loop" /\ result' = result
       ELSE pc' = "returned" /\ result' = "newapp_failed"
  /\ UNCHANGED <<pmVars, runnerVars, ctxCancelled, envVars, mode, cfg, httpPort,
                 httpsPort, running, failStep, failKind, setupVars, events, sdVars, certVars, dnsVars, proxyVars>>

\* runSetup, lines 181-199: the loading message, then the step's goroutine.
SetupStepBegin ==
  /\ pc = "setup_loop"
  /\ events' = Emit(<<<<StepNames[stepIdx], "loading">>>>)
  /\ stepTask' = [stepTask EXCEPT ![StepNames[stepIdx]] = "running"]
  /\ stepDone' = "empty"
  /\ selChoice' = "none"
  /\ pc' = "setup_select"
  /\ UNCHANGED <<pmVars, runnerVars, ctxCancelled, envVars, appVars, stepIdx, sdVars, certVars, dnsVars, proxyVars>>

\* runSetup, line 201: the select takes a case that is ready (any of them
\* when both are), or parks.
SetupSelect ==
  /\ pc = "setup_select"
  /\ LET ready == (IF stepDone # "empty" THEN {"done"} ELSE {}) \cup
                  (IF ctxCancelled THEN {"cancel"} ELSE {})
     IN IF ready = {}
          THEN pc' = "setup_parked" /\ selChoice' = selChoice
          ELSE pc' = "setup_woken" /\ selChoice' \in ready
  /\ UNCHANGED <<pmVars, runnerVars, ctxCancelled, envVars, appVars, stepIdx, stepTask,
                 stepDone, events, sdVars, certVars, dnsVars, proxyVars>>

\* The 30-second timer of stepCtx fires while the select is parked.
StepTimerFire ==
  /\ pc = "setup_parked"
  /\ pc' = "setup_woken"
  /\ selChoice' = "timer"
  /\ UNCHANGED <<pmVars, runnerVars, ctxCancelled, envVars, appVars, stepIdx, stepTask,
                 stepDone, events, sdVars, certVars, dnsVars, proxyVars>>

\* A loop that goes on to the next step after a step's error.
StepHandleNextIgnoreError(choice, res, idx) ==
  IF choice = "done"
    THEN (IF idx = Len(StepNames) THEN "sv_proxy" ELSE "setup_loop")
    ELSE "returned"

\* A loop that goes on to the next step after a step's timeout.
StepHandleNextIgnoreTimeout(choice, res, idx) ==
  IF choice # "done" \/ res = "ok"
    THEN (IF idx = Len(StepNames) THEN "sv_proxy" ELSE "setup_loop")
    ELSE "returned"

\* A loop that leaves for service start when a step failed.
StepHandleNextStartsAnyway(choice, res, idx) ==
  IF choice = "done" /\ res = "ok" /\ idx < Len(StepNames) THEN "setup_loop" ELSE "sv_proxy"

\* runSetup, lines 202-236: where the loop goes after the select.
StepHandleNext(choice, res, idx) ==
  IF choice = "done" /\ res = "ok"
    THEN (IF idx = Len(StepNames) THEN "sv_proxy" ELSE "setup_loop")
    ELSE "returned"

\* A loop that falls through to the success message after an error.
StepHandleEventsFallThrough(name, choice, res, idx) ==
  IF choice = "done" /\ res = "ok"
    THEN <<<<name, "success">>>> \o
         (IF idx = Len(StepNames) THEN <<<<"setup", "complete">>>> ELSE <<>>)
    ELSE <<<<name, "error">>, <<name, "success">>>>

\* runSetup, lines 202-242: the messages sent after the select.
StepHandleEvents(name, choice, res, idx) ==
  IF choice = "done" /\ res = "ok"
    THEN <<<<name, "success">>>> \o
         (IF idx = Len(StepNames) THEN <<<<"setup", "complete">>>> ELSE <<>>)
    ELSE <<<<name, "error">>>>

SetupHandle ==
  /\ pc = "setup_woken"
  /\ LET name == StepNames[stepIdx]
         next == StepHandleNext(selChoice, stepDone, stepIdx)
     IN /\ events' = Emit(StepHandleEvents(name, selChoice, stepDone, stepIdx))
        /\ pc' = next
        /\ IF next = "returned"
             THEN /\ result' = "setup_failed"
                  /\ failStep' = name
                  /\ failKind' = IF selChoice = "done" THEN "failed" ELSE "timeout"
                  /\ stepIdx' = stepIdx
             ELSE /\ stepIdx' = IF next = "setup_loop" THEN stepIdx + 1 ELSE stepIdx
                  /\ UNCHANGED <<result, failStep, failKind>>
  /\ UNCHANGED <<pmVars, runnerVars, ctxCancelled, envVars, mode, cfg, httpPort,
                 httpsPort, running, stepTask, stepDone, selChoice, sdVars,
                 certVars, dnsVars, proxyVars>>

\* An unbuffered stepDone: the send waits for the select of runSetup to
\* receive.
StepDoneSendReadyUnbuffered(p) == p \in {"setup_select", "setup_parked"}

\* runSetup, line 197: stepDone is made with room for one value and gets
\* one send, so the send goes through wherever runSetup is (p).
StepDoneSendReady(p) == TRUE

\* The goroutine of a step sends Execute's result on the buffered channel
\* and wakes the select if it is parked.
StepFinish(name, res) ==
  /\ StepDoneSendReady(pc)
  /\ stepTask' = [stepTask EXCEPT ![name] = res]
  /\ stepDone' = res
  /\ IF pc = "setup_parked"
       THEN pc' = "setup_woken" /\ selChoice' = "done"
       ELSE UNCHANGED <<pc, selChoice>>

\* setupValidation
StepValidate ==
  /\ stepTask["validate"] = "running"
  /\ \E dirsOk \in BOOLEAN :
       StepFinish("validate", IF mkcertInstalled /\ dirsOk THEN "ok" ELSE "err")
  /\ UNCHANGED <<pmVars, runnerVars, ctxCancelled, envVars, appVars, stepIdx, events,
                 sdVars, certVars, dnsVars, proxyVars>>

\* A Ports step that takes a pinned HTTP port without probing it.
SetupHTTPPortUnchecked(alloc) ==
  IF cfg.HTTPPort = 0
    THEN {[ok |-> r.ok, port |-> r.port, alloc |-> Reserve(alloc, r)] :
            r \in FindFreePort(alloc)}
    ELSE {[ok |-> TRUE, port |-> cfg.HTTPPort, alloc |-> alloc]}

\* setupPorts, lines 277-288: the HTTP port.  A pinned port is checked but
\* not recorded in the allocator.
SetupHTTPPort(alloc) ==
  IF cfg.HTTPPort = 0
    THEN {[ok |-> r.ok, port |-> r.port, alloc |-> Reserve(alloc, r)] :
            r \in FindFreePort(alloc)}
    ELSE IF ~IsPortAvailable(alloc, cfg.HTTPPort)
      THEN {[ok |-> FALSE, port |-> httpPort, alloc |-> alloc]}
      ELSE {[ok |-> TRUE, port |-> cfg.HTTPPort, alloc |-> alloc]}

\* A Ports step that leaves the clean-URL flag as configured when it falls
\* back to a port near 8443.
SetupHTTPSPortKeepsFlag(alloc) ==
  IF cfg.HTTPSPort = 0
    THEN IF cfg.UsePort443 /\ CanUsePort443
      THEN {[ok |-> TRUE, port |-> Port443, alloc |-> alloc, use443 |-> cfg.UsePort443]}
      ELSE {[ok |-> r.ok, port |-> r.port, alloc |-> Reserve(alloc, r),
             use443 |-> cfg.UsePort443] :
               r \in FindFreePortNear(alloc, PreferredHTTPSPort)}
    ELSE IF ~IsPortAvailable(alloc, cfg.HTTPSPort)
      THEN {[ok |-> FALSE, port |-> httpsPort, alloc |-> alloc, use443 |-> cfg.UsePort443]}
      ELSE {[ok |-> TRUE, port |-> cfg.HTTPSPort, alloc |-> alloc,
             use443 |-> (cfg.HTTPSPort = Port443)]}

\* setupPorts, lines 290-308: the HTTPS port and the clean-URL flag.
SetupHTTPSPort(alloc) ==
  IF cfg.HTTPSPort = 0
    THEN IF cfg.UsePort443 /\ CanUsePort443
      THEN {[ok |-> TRUE, port |-> Port443, alloc |-> alloc, use443 |-> cfg.UsePort443]}
      ELSE {[ok |-> r.ok, port |-> r.port, alloc |-> Reserve(alloc, r),
             use443 |-> IF r.ok THEN FALSE ELSE cfg.UsePort443] :
               r \in FindFreePortNear(alloc, PreferredHTTPSPort)}
    ELSE IF ~IsPortAvailable(alloc, cfg.HTTPSPort)
      THEN {[ok |-> FALSE, port |-> httpsPort, alloc |-> alloc, use443 |-> cfg.UsePort443]}
      ELSE {[ok |-> TRUE, port |-> cfg.HTTPSPort, alloc |-> alloc,
             use443 |-> (cfg.HTTPSPort = Port443)]}

\* setupPorts
StepPorts ==
  /\ stepTask["ports"] = "running"
  /\ \E h \in SetupHTTPPort(allocatedPorts) :
       IF ~h.ok
         THEN /\ httpPort' = h.port
              /\ allocatedPorts' = h.alloc
              /\ UNCHANGED <<httpsPort, cfg>>
              /\ StepFinish("ports", "err")
         ELSE \E t \in SetupHTTPSPort(h.alloc) :
              /\ httpPort' = h.port
              /\ httpsPort' = t.port
              /\ allocatedPorts' = t.alloc
              /\ cfg' = [cfg EXCEPT !.UsePort443 = t.use443]
              /\ StepFinish("ports", IF t.ok THEN "ok" ELSE "err")
  /\ UNCHANGED <<osBusy, pmLast, pmOps, runnerVars, ctxCancelled, envVars, mode, running,
                 result, failStep, failKind, stepIdx, events, sdVars, certVars,
                 dnsVars, proxyVars>>

\* A certificate step that passes the configured domain as it is.
SetupCertDomainRaw(domain) == domain

\* setupCertificates, lines 324-327: the domain passed to EnsureCertificate.
SetupCertDomain(domain) == IF domain = "" THEN "localhost" ELSE domain

\* setupCertificates
StepCerts ==
  /\ stepTask["certs"] = "running"
  /\ IF ~cfg.EnableHTTPS
       THEN /\ StepFinish("certs", "ok")
            /\ UNCHANGED <<cfg, certVars>>
       ELSE LET domain == SetupCertDomain(cfg.Domain)
            IN \E r \in EnsureCertificate(certFile, domain, FALSE) :
               /\ certFile' = r.file
               /\ mkcertRuns' = IF r.minted THEN mkcertRuns + 1 ELSE mkcertRuns
               /\ certLog' = Append(certLog, CertCall(certFile, domain, FALSE, r))
               /\ cfg' = IF r.ok
                           THEN [cfg EXCEPT !.CertPath = r.certPath, !.KeyPath = r.keyPath]
                           ELSE cfg
               /\ StepFinish("certs", IF r.ok THEN "ok" ELSE "err")
  /\ UNCHANGED <<pmVars, runnerVars, ctxCancelled, envVars, mode, httpPort, httpsPort,
                 running, result, failStep, failKind, stepIdx, events, sdVars,
                 dnsVars, proxyVars>>

\* A DNS step that returns the resolver's error.
DNSStepResultStrict(setupRes, testRes) ==
  IF setupRes = "err" \/ testRes = "err" THEN "err" ELSE "ok"

\* setupDNS, lines 352-366: what the step returns for the results of the
\* resolver's Setup and Test.
DNSStepResult(setupRes, testRes) == "ok"

\* A DNS step that is skipped only when DNS is disabled.
SetupDNSSkipsOnlyDisabled(c) == ~c.EnableDNS

\* setupDNS, line 347: when the step does nothing.
SetupDNSSkips(c) == ~c.EnableDNS \/ c.Domain = "" \/ c.Domain = "localhost"

\* setupDNS
StepDNS ==
  /\ stepTask["dns"] = "running"
  /\ IF SetupDNSSkips(cfg)
       THEN /\ StepFinish("dns", "ok")
            /\ UNCHANGED dnsVars
       ELSE \E s \in ResolverSetup :
            /\ dnsConfigured' = s.configured
            /\ hostsEntries' = s.entries
            /\ dnsSetupRes' = s.res
            /\ IF s.res = "err"
                 THEN /\ dnsCalled' = dnsCalled \cup {"Setup"}
                      /\ dnsTestRes' = dnsTestRes
                      /\ StepFinish("dns", DNSStepResult(s.res, "none"))
                 ELSE \E t \in ResolverTest :
                      /\ dnsCalled' = dnsCalled \cup {"Setup", "Test"}
                      /\ dnsTestRes' = t
                      /\ StepFinish("dns", DNSStepResult(s.res, t))
  /\ UNCHANGED <<pmVars, runnerVars, ctxCancelled, envVars, appVars, stepIdx, events,
                 sdVars, certVars, dnsLog, proxyVars>>

InitPorts ==
  /\ allocatedPorts = {}
  /\ osBusy \in OsBusyChoices
  /\ pmLast = NoCall
  /\ pmOps = 0
  /\ RunnerInit
  /\ ctxCancelled = FALSE
  /\ pc = "ports"
  /\ OrchIdle

NextPorts ==
  \/ PM_FindFreePort
  \/ PM_FindFreePortNear
  \/ PM_IsPortAvailable
  \/ PM_ReleasePort

SpecPorts == InitPorts /\ [][NextPorts]_vars

\* C10: an allocating call never returns a port that is reserved at the
\* time of the call (returned earlier and not yet released).
C10_NoDoubleAllocation ==
  (pmLast.op \in {"FindFreePort", "FindFreePortNear"} /\ pmLast.ok)
     => pmLast.ret \notin pmLast.pre

\* The last call was FindFreePortNear.
LastNear == pmLast.op = "FindFreePortNear"

\* C11: FindFreePortNear(preferred) returns preferred and reserves it
\* whenever preferred was available at the call (not reserved, bind probe
\* succeeds), privileged ports included.
C11_PreferredWhenAvailable ==
  (LastNear /\ pmLast.arg \notin pmLast.pre /\ pmLast.arg \notin osBusy) =>
     /\ pmLast.ok /\ pmLast.ret = pmLast.arg
     /\ allocatedPorts = pmLast.pre \cup {pmLast.arg}

C11_Witness ==
  /\ LastNear /\ pmLast.arg = Port443 /\ pmLast.ret = Port443
  /\ Port443 \in allocatedPorts /\ Port443 \notin pmLast.pre

\* The ports free at the last call: not reserved and bindable.
FreeAtCall(port) == port \notin pmLast.pre /\ port \notin osBusy

\* Offsets k whose upper / lower neighbour was free at the last call.
FreeOffsets == {k \in 1..NearOffsets :
                  FreeAtCall(pmLast.arg + k) \/ FreeAtCall(pmLast.arg - k)}

\* C12 (as claimed): FindFreePortNear returns the first free port of
\* preferred, preferred+1, preferred-1, ..., preferred+100, preferred-100 and
\* falls back to FindFreePort only when none of them is free.
C12_FirstFreeCandidate ==
  (LastNear /\ ~FreeAtCall(pmLast.arg) /\ FreeOffsets # {}) =>
     LET k == Min(FreeOffsets)
     IN /\ pmLast.ok
        /\ pmLast.ret = IF FreeAtCall(pmLast.arg + k) THEN pmLast.arg + k
                         ELSE pmLast.arg - k

\* Offsets k whose upper / lower neighbour was free at the last call and
\* lies strictly between 1024 and 65535.
InNearBounds(port) == port > 1024 /\ port < 65535
EligibleOffsets == {k \in 1..NearOffsets :
                      \/ FreeAtCall(pmLast.arg + k) /\ InNearBounds(pmLast.arg + k)
                      \/ FreeAtCall(pmLast.arg - k) /\ InNearBounds(pmLast.arg - k)}

\* C12 (amended): after preferred, only neighbours strictly between 1024
\* and 65535 are candidates; the first free one in the order +1, -1, +2,
\* -2, ... is returned and reserved, and FindFreePort is used exactly when
\* there is none.
C12_FirstEligibleCandidate ==
  (LastNear /\ ~FreeAtCall(pmLast.arg)) =>
     IF EligibleOffsets # {}
       THEN LET k == Min(EligibleOffsets)
                up == pmLast.arg + k
            IN /\ pmLast.ok
               /\ pmLast.ret = IF FreeAtCall(up) /\ InNearBounds(up) THEN up
                                ELSE pmLast.arg - k
               /\ allocatedPorts = pmLast.pre \cup {pmLast.ret}
       ELSE \/ ~pmLast.ok /\ allocatedPorts = pmLast.pre
            \/ pmLast.ok /\ pmLast.ret \in EphemeralPorts \ osBusy

C12_Witness ==
  /\ LastNear /\ pmLast.arg = PreferredHTTPSPort
  /\ PreferredHTTPSPort + 1 \in osBusy
  /\ pmLast.ok /\ pmLast.ret = PreferredHTTPSPort - 1

\* C13: IsPortAvailable(port) answers true exactly when the port is not
\* reserved in this allocator and the bind probe succeeds, and it leaves
\* the reservations as they were.
C13_AvailableIffFree ==
  pmLast.op = "IsPortAvailable" =>
     /\ pmLast.ok <=> (pmLast.arg \notin pmLast.pre /\ pmLast.arg \notin osBusy)
     /\ allocatedPorts = pmLast.pre

C13_Witness ==
  /\ pmLast.op = "IsPortAvailable" /\ ~pmLast.ok
  /\ pmLast.arg \in pmLast.pre /\ pmLast.arg \notin osBusy

\* C14: ReleasePort(port) removes the reservation of port and no other,
\* and releasing again (or releasing a port that holds no reservation)
\* changes nothing.
C14_ReleaseOnlyThatPort ==
  pmLast.op = "ReleasePort" =>
     /\ allocatedPorts = pmLast.pre \ {pmLast.arg}
     /\ ReleasePort(allocatedPorts, pmLast.arg) = allocatedPorts
     /\ pmLast.arg \notin pmLast.pre => allocatedPorts = pmLast.pre

C14_Witness ==
  /\ pmLast.op = "ReleasePort" /\ pmLast.arg \notin pmLast.pre
  /\ pmLast.pre # {} /\ allocatedPorts = pmLast.pre

InitCert ==
  /\ backend = "refusing"
  /\ allocatedPorts = {}
  /\ osBusy = {}
  /\ pmLast = NoCall
  /\ pmOps = 0
  /\ RunnerInit
  /\ ctxCancelled = FALSE
  /\ pc = "certs"
  /\ OrchRest
  /\ \E d \in DomainChoices : cfg = [BaseCfg EXCEPT !.Domain = d]
  /\ certFile \in CertKinds
  /\ mkcertRuns = 0
  /\ certLog = <<>>

NextCert ==
  \/ CM_EnsureCertificate
  \/ CM_StoreChange

SpecCert == InitCert /\ [][NextCert]_vars

\* C20: two successive EnsureCertificate(domain, false) calls with no change
\* to the store in between: once the first has returned its record, the
\* second returns the same certificate and key paths, does not run the
\* certificate-authority tool and is not marked freshly created.
C20_SecondCallReuses ==
  \A i \in 1..(Len(certLog) - 1) :
    LET a == certLog[i]
        b == certLog[i + 1]
    IN (/\ a.op = "EnsureCertificate" /\ b.op = "EnsureCertificate"
        /\ ~a.force /\ ~b.force /\ a.domain = b.domain /\ a.ok) =>
          /\ b.ok /\ b.certPath = a.certPath /\ b.keyPath = a.keyPath
          /\ ~b.minted /\ ~b.created

C20_Witness ==
  /\ Len(certLog) = 2
  /\ certLog[1].op = "EnsureCertificate" /\ ~certLog[1].force /\ certLog[1].created
  /\ certLog[2].op = "EnsureCertificate" /\ ~certLog[2].force /\ certLog[2].ok
  /\ ~certLog[2].minted /\ certLog[2].certPath = certLog[1].certPath
  /\ mkcertRuns = 1

\* The EnsureCertificate calls of certLog with force = false.
UnforcedCalls == {i \in 1..Len(certLog) :
                    certLog[i].op = "EnsureCertificate" /\ ~certLog[i].force}

\* C21: a stored certificate past its NotAfter fails validation, and an
\* EnsureCertificate(domain, false) that finds it validates it, runs the
\* certificate-authority tool, and the record it returns is marked freshly
\* created.
C21_ExpiredIsRegenerated ==
  /\ ~ValidateCertificate("expired")
  /\ \A i \in UnforcedCalls :
        certLog[i].stored = "expired" =>
          /\ certLog[i].validated /\ certLog[i].minted
          /\ certLog[i].ok => certLog[i].created
          /\ certLog[i].ok <=> certLog[i].mint = "ok"

C21_Witness ==
  \E i \in UnforcedCalls :
    /\ certLog[i].stored = "expired" /\ certLog[i].ok /\ certLog[i].created
    /\ i = Len(certLog) /\ certFile = "valid"

\* The stored pairs that exist and fail validateCertificate.
InvalidKinds == {"unparseable", "expired", "wronghost", "mismatched"}

\* C22: an EnsureCertificate(domain, false) that finds a pair failing
\* validation in any way runs the certificate-authority tool instead of
\* returning the validation error, and a call returns an error only when
\* the tool failed or the files are missing after it ran.
C22_InvalidIsRegenerated ==
  /\ \A i \in UnforcedCalls :
        certLog[i].stored \in InvalidKinds =>
          /\ certLog[i].validated /\ certLog[i].minted
          /\ certLog[i].mint = "ok" => (certLog[i].ok /\ certLog[i].created)
  /\ \A i \in 1..Len(certLog) :
        (certLog[i].op = "EnsureCertificate" /\ ~certLog[i].ok) =>
           certLog[i].mint \in {"failed", "nofiles"}

C22_Witness ==
  /\ \E i \in UnforcedCalls :
       certLog[i].stored = "mismatched" /\ certLog[i].ok /\ certLog[i].created
  /\ \E i \in UnforcedCalls :
       certLog[i].stored = "unparseable" /\ ~certLog[i].ok /\ certLog[i].mint = "failed"

InitRunner ==
  /\ allocatedPorts = {}
  /\ osBusy = {}
  /\ pmLast = NoCall
  /\ pmOps = 0
  /\ RunnerInit
  /\ ctxCancelled = FALSE
  /\ pc = "harness"
  /\ OrchIdle

RunnerSteps ==
  \/ ChildExit
  \/ GroupSpawn
  \/ GroupExit
  \/ ExecCtxKill
  \/ WaitForCompletion
  \/ StopEnter
  \/ StopTermGroup
  \/ StopTermFallback
  \/ StopSpawnWait
  \/ StopWait
  \/ StopDone
  \/ StopTimeout
  \/ StopKillLookup
  \/ StopKillGroup
  \/ StopKillFallback

NextRunner ==
  \/ HarnessStart
  \/ CtxCancel
  \/ RunnerSteps

SpecRunner == InitRunner /\ [][NextRunner]_vars

\* startServices, lines 371-391.  The messages of the proxy stage are sent
\* without the nil check: with no UI program the send dereferences nil.
SvProxyBegin ==
  /\ pc = "sv_proxy"
  /\ IF ~cfg.EnableProxy
       THEN /\ pc' = "sv_dev"
            /\ UNCHANGED <<result, events, proxyVars>>
       ELSE IF mode # "interactive"
         THEN /\ pc' = "returned"
              /\ result' = "panic"
              /\ UNCHANGED <<events, proxyVars>>
         ELSE /\ events' = Append(events, <<"proxy", "loading">>)
              /\ proxyServer' = "created"
              /\ proxyListener' = "starting"
              /\ UNCHANGED <<backend, reqLog>>
              /\ pc' = "sv_proxy_wait"
              /\ result' = result
  /\ UNCHANGED <<pmVars, runnerVars, ctxCancelled, envVars, mode, cfg, httpPort,
                 httpsPort, running, failStep, failKind, setupVars, sdVars,
                 certVars, dnsVars>>

\* The other program binds the public port, after the Ports step found it
\* free and before the proxy's goroutine binds it.
RivalListen ==
  /\ rival = "waiting" /\ result = "none"
  /\ stepTask["ports"] = "ok" /\ proxyListener \in {"none", "starting"}
  /\ httpsPort \notin osBusy
  /\ osBusy' = osBusy \cup {httpsPort}
  /\ rival' = "listening"
  /\ UNCHANGED <<allocatedPorts, pmLast, pmOps, runnerVars, ctxCancelled, pc,
                 mkcertInstalled, platform, dnsmasqInstalled, portFile, appVars,
                 setupVars, events, sdVars, certVars, dnsVars, proxyVars>>

\* ProxyServer.Start, lines 82-93: the goroutine running ListenAndServe(TLS)
\* first binds the port, or fails to (port taken).
ProxyListen ==
  /\ proxyListener = "starting"
  /\ \E ok \in BOOLEAN :
       proxyListener' = IF ok /\ httpsPort \notin osBusy THEN "bound" ELSE "bind_failed"
  /\ UNCHANGED <<pmVars, runnerVars, ctxCancelled, pc, envVars, appVars, setupVars,
                 events, sdVars, certVars, dnsVars, proxyServer, backend, reqLog>>

\* How serving on the bound listener can go on: ServeTLS loads the key pair
\* first and returns its error (closing the listener) when the material
\* cannot be loaded; plain Serve just serves.
ServeOutcomes(c) == IF c.EnableHTTPS THEN {"serving", "cert_failed"} ELSE {"serving"}

\* ProxyServer.Start, lines 82-93: the goroutine goes on to serve; its
\* error is logged and goes nowhere else.
ProxyServe ==
  /\ proxyListener = "bound"
  /\ proxyListener' \in ServeOutcomes(cfg)
  /\ UNCHANGED <<pmVars, runnerVars, ctxCancelled, pc, envVars, appVars, setupVars,
                 events, sdVars, certVars, dnsVars, proxyServer, backend, reqLog>>

\* waitForReady: a dial of 127.0.0.1:port succeeds when anything listens,
\* the proxy's own listener included from the moment it is bound.
ProbeAnswered == proxyListener \in {"bound", "serving"} \/ httpsPort \in osBusy

\* A select of waitForReady that can also return nil.
WaitForReadySelectNoProbe(answered, cancelled) ==
  {"ready"} \cup (IF cancelled THEN {"cancel"} ELSE {})

\* waitForReady, lines 374-385: the cases its parked select can take: the
\* 100 ms tick (taken while the context is live), the 10-second timer (it
\* fires when no dial has been answered), ctx.Done().
WaitForReadySelect(answered, cancelled) ==
  (IF cancelled THEN {"cancel"} ELSE {"tick"}) \cup (IF answered THEN {} ELSE {"timeout"})

\* waitForReady, lines 380-384: the ticker case starts a dial of the port.
SvProxyTick ==
  /\ pc = "sv_proxy_wait"
  /\ \E c \in WaitForReadySelect(ProbeAnswered, ctxCancelled) \ {"cancel", "timeout"} :
       pc' = IF c = "tick" THEN "sv_proxy_dial" ELSE "sv_dev"
  /\ UNCHANGED <<pmVars, runnerVars, ctxCancelled, envVars, appVars, setupVars,
                 events, sdVars, certVars, dnsVars, proxyVars>>

\* The dial ends: answered, and Start returns nil (startServices, lines
\* 393-397), or not, and the loop selects again.
SvProxyReady ==
  /\ pc = "sv_proxy_dial"
  /\ IF ProbeAnswered
       THEN /\ events' = Append(events, <<"proxy", "success">>)
            /\ pc' = "sv_dev"
       ELSE /\ events' = events
            /\ pc' = "sv_proxy_wait"
  /\ UNCHANGED <<pmVars, runnerVars, ctxCancelled, envVars, appVars, setupVars, sdVars, certVars, dnsVars, proxyVars>>

\* ProxyServer.Start returns the error of waitForReady; startServices,
\* lines 389-391.
SvProxyFail ==
  /\ pc = "sv_proxy_wait"
  /\ \E why \in WaitForReadySelect(ProbeAnswered, ctxCancelled) \cap {"cancel", "timeout"} :
       failKind' = why
  /\ failStep' = "proxy"
  /\ result' = "start_failed"
  /\ pc' = "returned"
  /\ UNCHANGED <<pmVars, runnerVars, ctxCancelled, envVars, mode, cfg, httpPort,
                 httpsPort, running, setupVars, events, sdVars, certVars,
                 dnsVars, proxyVars>>

\* ------------------------------------------------- requests to the proxy
\* A transport error, as the words of its message.
ErrRefused == <<"dial tcp", "connect", "connection refused">>
ErrOther == {<<"read tcp", "connection reset by peer">>, <<"context deadline exceeded">>}

\* What the client gets and what became of the handler: status 0 is
\* nothing written yet; panic says whether the handler panicked, before or
\* after the response header was written.
Response(status, page, panic) ==
  [status |-> status, page |-> page, panic |-> panic, crashed |-> FALSE]

\* An error handler that shows the holding page for every error.
ErrorHandlerAlwaysHolding(err) == Response(502, "holding", "none")

\* errorHandler: the holding page when the message contains "connection
\* refused", else http.Error "Bad Gateway".
ErrorHandler(err) ==
  IF \E i \in 1..Len(err) : err[i] = "connection refused"
    THEN Response(502, "holding", "none")
    ELSE Response(502, "plain", "none")

\* The reverse proxy behind the middlewares: a transport error goes to the
\* error handler; a backend that answers is copied to the client, and a
\* copy that breaks after the header panics with ErrAbortHandler; fault is
\* a failure in request handling before anything is written.
ReverseProxy(bk, fault) ==
  IF fault THEN {Response(0, "none", "before")}
  ELSE IF bk = "refusing" THEN {ErrorHandler(ErrRefused)}
  ELSE IF bk = "broken" THEN {ErrorHandler(e) : e \in ErrOther}
  ELSE {Response(200, "backend", "none"), Response(200, "backend", "after")}

\* corsMiddleware: OPTIONS is answered 200 without calling the handler.
CorsMiddleware(method, inner) ==
  IF method = "OPTIONS" THEN {Response(200, "none", "none")} ELSE inner

\* A recovery middleware that lets the panic through and the server die.
RecoveryMiddlewarePropagates(r) ==
  IF r.panic = "none" THEN r ELSE [r EXCEPT !.crashed = TRUE]

\* recoveryMiddleware: recover() and http.Error 500, which sets the status
\* only when no header was written before.
RecoveryMiddleware(r) ==
  IF r.panic # "none" /\ r.status = 0
    THEN [r EXCEPT !.status = 500, !.page = "error"]
    ELSE r

\* middlewareChain: recovery around logging around CORS around the proxy.
MiddlewareChain(method, bk, fault) ==
  {RecoveryMiddleware(r) : r \in CorsMiddleware(method, ReverseProxy(bk, fault))}

\* One request served by the running proxy.
PX_Request ==
  /\ pc = "proxy" /\ proxyListener = "serving" /\ Len(reqLog) < MaxRequests
  /\ \E method \in {"GET", "POST", "OPTIONS"}, fault \in BOOLEAN :
       \E r \in MiddlewareChain(method, backend, fault) :
         /\ reqLog' = Append(reqLog, [method |-> method, backend |-> backend,
                                       status |-> r.status, page |-> r.page,
                                       panic |-> r.panic])
         /\ proxyListener' = IF r.crashed THEN "failed" ELSE proxyListener
  /\ UNCHANGED <<pmVars, runnerVars, ctxCancelled, pc, envVars, appVars, setupVars,
                 events, sdVars, certVars, dnsVars, proxyServer, backend>>

\* The backend starts or stops listening, or starts failing otherwise.
PX_BackendChange ==
  /\ pc = "proxy"
  /\ backend' \in {"refusing", "accepting", "broken"} \ {backend}
  /\ UNCHANGED <<pmVars, runnerVars, ctxCancelled, pc, envVars, appVars, setupVars,
                 events, sdVars, certVars, dnsVars, proxyServer, proxyListener, reqLog>>

InitProxy ==
  /\ allocatedPorts = {}
  /\ osBusy = {}
  /\ pmLast = NoCall
  /\ pmOps = 0
  /\ RunnerInit
  /\ ctxCancelled = FALSE
  /\ pc = "proxy"
  /\ mkcertInstalled = TRUE /\ platform = "linux" /\ dnsmasqInstalled = TRUE
  /\ portFile = FALSE /\ rival = "none" /\ mode = "interactive" /\ cfg = BaseCfg
  /\ httpPort = EphemeralBase /\ httpsPort = Port443
  /\ running = TRUE /\ result = "none" /\ failStep = "none" /\ failKind = "none"
  /\ stepIdx = 1 /\ stepTask = [n \in StepSet |-> "ok"]
  /\ stepDone = "empty" /\ selChoice = "none"
  /\ events = <<>> /\ teardownLog = <<>> /\ errs = <<>>
  /\ certFile = "valid" /\ mkcertRuns = 0 /\ certLog = <<>>
  /\ dnsConfigured = FALSE /\ hostsEntries = 0 /\ dnsCalled = {}
  /\ dnsSetupRes = "none" /\ dnsTestRes = "none" /\ dnsLog = <<>>
  /\ proxyServer = "created" /\ proxyListener = "serving"
  /\ backend = "refusing"
  /\ reqLog = <<>>

NextProxy ==
  \/ PX_Request
  \/ PX_BackendChange

SpecProxy == InitProxy /\ [][NextProxy]_vars

\* The requests of reqLog that are not OPTIONS and met no panic.
Forwarded == {i \in 1..Len(reqLog) :
                reqLog[i].method # "OPTIONS" /\ reqLog[i].panic = "none"}

\* C26: a request that is not OPTIONS gets the holding page with status
\* 502 while the backend refuses connections, is forwarded once the backend
\* accepts them, and gets a plain 502 for any other transport failure; the
\* proxy stays running.
C26_HoldingPageOnRefusal ==
  /\ proxyListener = "serving"
  /\ \A i \in Forwarded :
        /\ reqLog[i].backend = "refusing" =>
              (reqLog[i].status = 502 /\ reqLog[i].page = "holding")
        /\ reqLog[i].backend = "accepting" => reqLog[i].page = "backend"
        /\ reqLog[i].backend = "broken" =>
              (reqLog[i].status = 502 /\ reqLog[i].page = "plain")

C26_Witness ==
  /\ Len(reqLog) = 3 /\ proxyListener = "serving"
  /\ reqLog[1].backend = "refusing" /\ reqLog[1].page = "holding"
  /\ reqLog[2].backend = "accepting" /\ reqLog[2].page = "backend"
  /\ reqLog[3].backend = "broken" /\ reqLog[3].page = "plain"

\* The requests of reqLog whose handler panicked.
Panicked == {i \in 1..Len(reqLog) : reqLog[i].panic # "none"}

\* C27 (as claimed): a panic while handling a request gives that request a
\* 500 response, and the proxy goes on running.
C27_PanicGives500 ==
  /\ proxyListener = "serving"
  /\ \A i \in Panicked : reqLog[i].status = 500

\* C27 (amended): a panic while handling a request never stops the proxy;
\* the request gets a 500 response when nothing had been written before the
\* panic, and keeps the status already sent otherwise.
C27_PanicIsolated ==
  /\ proxyListener = "serving"
  /\ \A i \in Panicked :
        IF reqLog[i].panic = "before" THEN reqLog[i].status = 500
        ELSE reqLog[i].status = 200 /\ reqLog[i].page = "backend"

C27_Witness ==
  /\ Len(reqLog) = 2 /\ proxyListener = "serving"
  /\ reqLog[1].panic = "before" /\ reqLog[1].status = 500
  /\ reqLog[2].panic = "none" /\ reqLog[2].page = "backend"

\* startServices, lines 400-429: a.runner.Start.  a.runner is only set by
\* Run, so without it the call dereferences nil.  By the time the command
\* has been prepared, the proxy's goroutine has loaded its key pair.
SvDevStart ==
  /\ pc = "sv_dev" /\ proxyListener # "bound"
  /\ IF mode # "interactive"
       THEN /\ pc' = "returned"
            /\ result' = "panic"
            /\ UNCHANGED <<procVars, stopVars, events, failStep, failKind>>
       ELSE \E ok \in BOOLEAN :
            /\ RunnerStart(ok)
            /\ UNCHANGED <<childExitCode, termDelivered, processState, execKilled,
                           exitEvents, stopVars>>
            /\ IF ok
                 THEN /\ events' = Append(events, <<"dev", "loading">>)
                      /\ pc' = "sv_ready"
                      /\ UNCHANGED <<result, failStep, failKind>>
                 ELSE /\ events' = events \o <<<<"dev", "loading">>, <<"dev", "error">>>>
                      /\ pc' = "returned"
                      /\ result' = "start_failed"
                      /\ failStep' = "dev"
                      /\ failKind' = "failed"
  /\ UNCHANGED <<pmVars, ctxCancelled, envVars, mode, cfg, httpPort, httpsPort, running,
                 setupVars, sdVars, certVars, dnsVars, proxyVars>>

\* A readiness wait whose expiry fails the stage.
DevReadyResultStrict(met) == IF met = "accepting" THEN "ok" ELSE "err"

\* startServices, lines 431-464: what the stage returns for what the wait
\* for the backend port met (WaitForPort returns within 30 seconds, the
\* select within 35): nil in every case, the expiry is only logged.
DevReadyResult(met) == "ok"

\* startServices, lines 431-464, and Run, lines 111-115: the wait for the
\* backend port ends, by a dial that was accepted or by its expiry.
SvReady ==
  /\ pc = "sv_ready"
  /\ \E met \in (IF childState = "running" THEN {"accepting"} ELSE {}) \cup {"refusing"} :
       IF DevReadyResult(met) = "ok"
            THEN /\ events' = events \o <<<<"dev", "success">>, <<"server", "started">>>>
                 /\ running' = TRUE
                 /\ pc' = "run_wait"
                 /\ UNCHANGED <<result, failStep, failKind>>
            ELSE /\ pc' = "returned"
                 /\ result' = "start_failed"
                 /\ failStep' = "dev"
                 /\ failKind' = "timeout"
                 /\ UNCHANGED <<events, running>>
  /\ UNCHANGED <<pmVars, runnerVars, ctxCancelled, envVars, mode, cfg, httpPort,
                 httpsPort, setupVars, sdVars, certVars, dnsVars, proxyVars>>

\* A shutdown that returns at the first failed step.
ShutdownNextEarlyReturn(step, failed) ==
  IF failed THEN "sd_return"
  ELSE CASE step = "runner" -> "sd_proxy"
         [] step = "proxy" -> "sd_dns"
         [] step = "dns" -> "sd_ports"
         [] step = "ports" -> "sd_file"
         [] OTHER -> "sd_return"

\* A shutdown that cleans up the resolver before it stops the proxy.
ShutdownNextDNSFirst(step, failed) ==
  CASE step = "runner" -> "sd_dns"
    [] step = "dns" -> "sd_proxy"
    [] step = "proxy" -> "sd_ports"
    [] step = "ports" -> "sd_file"
    [] OTHER -> "sd_return"

\* shutdown, lines 472-529: the step after each teardown step.  failed says
\* whether the step returned an error.
ShutdownNext(step, failed) ==
  CASE step = "runner" -> "sd_proxy"
    [] step = "proxy" -> "sd_dns"
    [] step = "dns" -> "sd_ports"
    [] step = "ports" -> "sd_file"
    [] OTHER -> "sd_return"

\* Run, lines 118-128, and shutdown, lines 470-474.  The select of Run
\* takes <-ctx.Done() once the context is cancelled, or <-uiDone when the UI
\* program returns, which it may at any time.
ShutdownBegin ==
  /\ pc = "run_wait"
  /\ mode = "interactive" \/ ctxCancelled
  /\ IF mode = "interactive"
       THEN /\ teardownLog' = Append(teardownLog, <<"runner", "begin">>)
            /\ pc' = "sd_runner_call"
       ELSE /\ teardownLog' = teardownLog
            /\ pc' = ShutdownNext("runner", FALSE)
  /\ UNCHANGED <<pmVars, runnerVars, ctxCancelled, envVars, appVars, setupVars, events,
                 errs, certVars, dnsVars, proxyVars>>

\* shutdown, lines 475-480: a.runner.Stop() has returned.
ShutdownRunnerEnd ==
  /\ pc = "sd_runner_call" /\ stopPc = "returned"
  /\ teardownLog' = Append(teardownLog, <<"runner", "end">>)
  /\ errs' = IF stopResult = "error" THEN Append(errs, "runner") ELSE errs
  /\ pc' = ShutdownNext("runner", stopResult = "error")
  /\ UNCHANGED <<pmVars, runnerVars, ctxCancelled, envVars, appVars, setupVars, events,
                 certVars, dnsVars, proxyVars>>

\* shutdown, lines 483-495: a.proxyServer.Stop with a 5-second context.
ShutdownProxy ==
  /\ pc = "sd_proxy"
  /\ IF proxyServer = "nil"
       THEN /\ pc' = ShutdownNext("proxy", FALSE)
            /\ UNCHANGED <<teardownLog, errs, proxyListener>>
       ELSE \E ok \in BOOLEAN :
            /\ proxyListener' = "closed"
            /\ teardownLog' = teardownLog \o <<<<"proxy", "begin">>, <<"proxy", "end">>>>
            /\ errs' = IF ok THEN errs ELSE Append(errs, "proxy")
            /\ pc' = ShutdownNext("proxy", ~ok)
  /\ UNCHANGED <<pmVars, runnerVars, ctxCancelled, envVars, appVars, setupVars, events,
                 certVars, dnsVars, proxyServer, backend, reqLog>>

\* shutdown, lines 497-506: a.dnsResolver.Cleanup().
ShutdownDNS ==
  /\ pc = "sd_dns"
  /\ \E c \in ResolverCleanup :
       /\ hostsEntries' = c.entries
       /\ errs' = IF c.res = "ok" THEN errs ELSE Append(errs, "dns")
       /\ pc' = ShutdownNext("dns", c.res # "ok")
  /\ dnsCalled' = dnsCalled \cup {"Cleanup"}
  /\ teardownLog' = teardownLog \o <<<<"dns", "begin">>, <<"dns", "end">>>>
  /\ UNCHANGED <<pmVars, runnerVars, ctxCancelled, envVars, appVars, setupVars, events,
                 certVars, dnsConfigured, dnsSetupRes, dnsTestRes, dnsLog, proxyVars>>

\* shutdown, lines 508-519: ReleasePort of both ports when positive.
ShutdownPorts ==
  /\ pc = "sd_ports"
  /\ allocatedPorts' =
       LET a1 == IF httpPort > 0 THEN ReleasePort(allocatedPorts, httpPort)
                 ELSE allocatedPorts
       IN IF httpsPort > 0 THEN ReleasePort(a1, httpsPort) ELSE a1
  /\ teardownLog' = teardownLog \o <<<<"ports", "begin">>, <<"ports", "end">>>>
  /\ pc' = ShutdownNext("ports", FALSE)
  /\ UNCHANGED <<osBusy, pmLast, pmOps, runnerVars, ctxCancelled, envVars, appVars,
                 setupVars, events, errs, certVars, dnsVars, proxyVars>>

\* shutdown, lines 521-529: the port-descriptor file is removed when it
\* exists (the orchestrator never writes it; it is there when something
\* else left it); a failed removal is logged and not added to errs.
ShutdownFile ==
  /\ pc = "sd_file"
  /\ IF portFile
       THEN /\ \E ok \in BOOLEAN : portFile' = ~ok
            /\ teardownLog' = teardownLog \o <<<<"file", "begin">>, <<"file", "end">>>>
       ELSE UNCHANGED <<portFile, teardownLog>>
  /\ pc' = ShutdownNext("file", FALSE)
  /\ UNCHANGED <<pmVars, runnerVars, ctxCancelled, mkcertInstalled, platform,
                 dnsmasqInstalled, rival, appVars, setupVars, events, errs, certVars,
                 dnsVars, proxyVars>>

\* A shutdown that returns nil whatever failed.
ShutdownResultIgnoresErrors(es) == "ok"

\* shutdown, lines 531-541: the aggregate error made of the count and the
\* list of the collected errors, or nil when there is none.
ShutdownResult(es) == IF Len(es) > 0 THEN "shutdown_errors" ELSE "ok"

ShutdownReturn ==
  /\ pc = "sd_return"
  /\ result' = ShutdownResult(errs)
  /\ pc' = "returned"
  /\ UNCHANGED <<pmVars, runnerVars, ctxCancelled, envVars, mode, cfg, httpPort,
                 httpsPort, running, failStep, failKind, setupVars, events, sdVars, certVars, dnsVars, proxyVars>>

\* The sessions checked.  BaseSession is what ParseFromFlags builds with no
\* flags for a project with a custom domain.  NewApp takes any Config, so
\* the feature flags vary too; each family varies the inputs of one stage
\* over all their combinations.
HTTPPortChoices == {0, PreferredHTTPSPort}
HTTPSPortChoices == {0, Port443, PreferredHTTPSPort}
OsBusyAppChoices == {{}, {Port443}, {Port443, PreferredHTTPSPort}}

BaseSession == [mode |-> "interactive", cfg |-> BaseCfg, osBusy |-> {},
                mkcert |-> TRUE, platform |-> "darwin", dnsmasq |-> TRUE,
                certFile |-> "valid", hosts |-> 0, portFile |-> FALSE,
                rival |-> "none"]

ModeSessions ==
  {[BaseSession EXCEPT !.mode = m, !.cfg.EnableProxy = x, !.mkcert = k,
                       !.portFile = f] :
     m \in {"interactive", "headless"}, x \in BOOLEAN, k \in BOOLEAN, f \in BOOLEAN}

PortSessions ==
  {[BaseSession EXCEPT !.cfg.HTTPPort = h, !.cfg.HTTPSPort = t, !.cfg.UsePort443 = u,
                       !.osBusy = o] :
     h \in HTTPPortChoices, t \in HTTPSPortChoices, u \in BOOLEAN, o \in OsBusyAppChoices}

CertSessions ==
  {[BaseSession EXCEPT !.cfg.EnableHTTPS = e, !.certFile = c] :
     e \in BOOLEAN, c \in {"missing", "valid", "expired"}}
  \cup {[BaseSession EXCEPT !.cfg.Domain = d, !.certFile = c] :
     d \in DomainChoices, c \in {"missing", "valid"}}

DNSSessions ==
  {[BaseSession EXCEPT !.cfg.Domain = d, !.platform = pl, !.dnsmasq = q] :
     d \in DomainChoices, pl \in {"darwin", "linux", "other"}, q \in BOOLEAN}
  \cup {[BaseSession EXCEPT !.cfg.EnableDNS = FALSE, !.cfg.Domain = d] : d \in DomainChoices}
  \cup {[BaseSession EXCEPT !.hosts = 1, !.platform = pl] : pl \in {"darwin", "linux"}}
  \cup {[BaseSession EXCEPT !.hosts = 1, !.cfg.EnableDNS = FALSE]}

\* Sessions with another program about to listen on the public port.
RivalSessions == {[BaseSession EXCEPT !.rival = "waiting", !.cfg.UsePort443 = u] :
                    u \in BOOLEAN}

Sessions ==
  ModeSessions \cup PortSessions \cup CertSessions \cup DNSSessions \cup RivalSessions

Init ==
  /\ \E s \in Sessions :
       /\ mode = s.mode
       /\ cfg = s.cfg
       /\ osBusy = s.osBusy
       /\ mkcertInstalled = s.mkcert
       /\ platform = s.platform
       /\ dnsmasqInstalled = s.dnsmasq
       /\ certFile = s.certFile
       /\ hostsEntries = s.hosts
       /\ portFile = s.portFile
       /\ rival = s.rival
  /\ allocatedPorts = {}
  /\ pmLast = NoCall
  /\ pmOps = 0
  /\ RunnerInit
  /\ ctxCancelled = FALSE
  /\ pc = "new_app"
  /\ httpPort = 0
  /\ httpsPort = 0
  /\ running = FALSE
  /\ result = "none"
  /\ failStep = "none"
  /\ failKind = "none"
  /\ stepIdx = 1
  /\ stepTask = [n \in StepSet |-> "idle"]
  /\ stepDone = "empty"
  /\ selChoice = "none"
  /\ events = <<>>
  /\ teardownLog = <<>>
  /\ errs = <<>>
  /\ mkcertRuns = 0
  /\ certLog = <<>>
  /\ dnsConfigured = FALSE
  /\ dnsCalled = {}
  /\ dnsSetupRes = "none"
  /\ dnsTestRes = "none"
  /\ dnsLog = <<>>
  /\ proxyServer = "nil"
  /\ proxyListener = "none"
  /\ backend = "refusing"
  /\ reqLog = <<>>

Next ==
  \/ NewApp
  \/ SetupStepBegin
  \/ SetupSelect
  \/ StepTimerFire
  \/ SetupHandle
  \/ StepValidate
  \/ StepPorts
  \/ StepCerts
  \/ StepDNS
  \/ SvProxyBegin
  \/ RivalListen
  \/ ProxyListen
  \/ ProxyServe
  \/ SvProxyTick
  \/ SvProxyReady
  \/ SvProxyFail
  \/ SvDevStart
  \/ SvReady
  \/ ShutdownBegin
  \/ ShutdownRunnerEnd
  \/ ShutdownProxy
  \/ ShutdownDNS
  \/ ShutdownPorts
  \/ ShutdownFile
  \/ ShutdownReturn
  \/ CtxCancel
  \/ RunnerSteps

Spec == Init /\ [][Next]_vars

\* ------------------------------------------------------------ properties
InLog(e) == \E i \in 1..Len(teardownLog) : teardownLog[i] = e
InEvents(e) == \E i \in 1..Len(events) : events[i] = e
ShutdownReturned == pc = "returned" /\ result \in {"ok", "shutdown_errors"}

\* C1: once shutdown has returned, every teardown step was performed (the
\* backend stop, the proxy stop when a proxy was created, the resolver
\* cleanup, the release of both ports), whichever of them failed.
C1_AllTeardownStepsAttempted ==
  ShutdownReturned =>
     /\ InLog(<<"runner", "end">>) /\ stopPc = "returned"
     /\ proxyServer # "nil" => (InLog(<<"proxy", "end">>) /\ proxyListener = "closed")
     /\ InLog(<<"dns", "end">>) /\ "Cleanup" \in dnsCalled
     /\ InLog(<<"ports", "end">>)
     /\ httpPort \notin allocatedPorts /\ httpsPort \notin allocatedPorts
     /\ (result = "shutdown_errors" <=> Len(errs) > 0)

C1_Witness ==
  /\ ShutdownReturned /\ result = "shutdown_errors"
  /\ errs[1] = "runner"
  /\ InLog(<<"proxy", "end">>) /\ InLog(<<"dns", "end">>) /\ InLog(<<"ports", "end">>)

\* C2: the teardown actions of one shutdown occur in the order backend,
\* proxy, resolver, ports, descriptor file; each begins after the one before
\* it has returned, and no effect of a later action precedes the return of
\* an earlier one.
C2_TeardownOrder ==
  LET rank(e) == 2 * (CASE e[1] = "runner" -> 1 [] e[1] = "proxy" -> 2
                        [] e[1] = "dns" -> 3 [] e[1] = "ports" -> 4 [] OTHER -> 5)
                 + (IF e[2] = "begin" THEN 0 ELSE 1)
  IN /\ \A i, j \in 1..Len(teardownLog) :
          i < j => rank(teardownLog[i]) < rank(teardownLog[j])
     /\ \A i \in 1..Len(teardownLog) :
          teardownLog[i][2] = "end" => (i > 1 /\ teardownLog[i - 1] = <<teardownLog[i][1], "begin">>)
     /\ proxyListener = "closed" => InLog(<<"runner", "end">>)
     /\ "Cleanup" \in dnsCalled =>
          (InLog(<<"runner", "end">>) /\ (proxyServer # "nil" => proxyListener = "closed"))
     /\ InLog(<<"ports", "begin">>) => "Cleanup" \in dnsCalled

C2_Witness ==
  teardownLog = <<<<"runner", "begin">>, <<"runner", "end">>, <<"proxy", "begin">>,
                  <<"proxy", "end">>, <<"dns", "begin">>, <<"dns", "end">>,
                  <<"ports", "begin">>, <<"ports", "end">>, <<"file", "begin">>,
                  <<"file", "end">>>>

\* C6: when a setup step returns an error or is cut off by its timeout
\* (or the cancellation of the session), setup fails with that step's name
\* and, for an error, the step's error; no later step is started and neither
\* the proxy nor the backend is started.
C6_FailureStopsPipeline ==
  /\ result = "setup_failed" =>
       /\ pc = "returned"
       /\ failStep = StepNames[stepIdx]
       /\ failKind \in {"failed", "timeout"}
       /\ failKind = "failed" => stepTask[failStep] = "err"
       /\ \A j \in (stepIdx + 1)..Len(StepNames) : stepTask[StepNames[j]] = "idle"
       /\ proxyServer = "nil" /\ proxyListener = "none"
       /\ ~cmdStarted /\ ~running
  /\ \A i \in 1..Len(StepNames) :
       stepTask[StepNames[i]] = "err" =>
         /\ \A j \in (i + 1)..Len(StepNames) : stepTask[StepNames[j]] = "idle"
         /\ proxyServer = "nil" /\ ~cmdStarted /\ ~running

C6_Witness ==
  /\ result = "setup_failed" /\ failStep = "ports" /\ failKind = "failed"
  /\ stepTask["validate"] = "ok" /\ stepTask["certs"] = "idle" /\ stepTask["dns"] = "idle"

\* C7: the setup steps start in the order validate, ports, certs, dns, each
\* only after the one before it finished successfully, and at most one step
\* is executing at any time, also after a step was cut off by its timeout
\* while its operation is still running.
C7_SequentialSteps ==
  /\ Cardinality({n \in StepSet : stepTask[n] = "running"}) <= 1
  /\ \A j \in 2..Len(StepNames) :
       stepTask[StepNames[j]] # "idle" => stepTask[StepNames[j - 1]] = "ok"
  /\ \A j \in 1..Len(StepNames) : stepTask[StepNames[j]] # "idle" => j <= stepIdx

C7_Witness ==
  /\ result = "setup_failed" /\ failKind = "timeout" /\ failStep = "ports"
  /\ stepTask["ports"] = "running"
  /\ stepTask["certs"] = "idle" /\ stepTask["dns"] = "idle"

\* The statuses sent for one setup step, in order.
StatusesOf(n) ==
  LET T(e) == e[1] = n
      s == SelectSeq(events, T)
  IN [i \in 1..Len(s) |-> s[i][2]]

\* The select of runSetup has dealt with step n.
StepHandled(n) ==
  /\ stepTask[n] # "idle"
  /\ \/ StepIndex(n) < stepIdx
     \/ StepIndex(n) = stepIdx /\
          pc \notin {"setup_loop", "setup_select", "setup_parked", "setup_woken"}

StepEventsWellFormed(n) ==
  /\ stepTask[n] = "idle" => StatusesOf(n) = <<>>
  /\ stepTask[n] # "idle" =>
       StatusesOf(n) \in {<<"loading">>, <<"loading", "success">>, <<"loading", "error">>}
  /\ StepHandled(n) <=> Len(StatusesOf(n)) = 2

\* C8 (as claimed): every started step has emitted loading, then one of
\* success and error once the loop has dealt with it; other steps nothing.
C8_StepEventsAlways == \A n \in StepSet : StepEventsWellFormed(n)

\* C8 (amended): with a UI program attached, each started step emits
\* loading, then exactly one of success and error; a step never started
\* emits nothing; setup-complete follows four successes.  With no UI
\* program (headless) no event is emitted at all.
C8_StepEventsWhenUIAttached ==
  /\ mode = "interactive" =>
       /\ \A n \in StepSet : StepEventsWellFormed(n)
       /\ InEvents(<<"setup", "complete">>) =>
            \A n \in StepSet : StatusesOf(n) = <<"loading", "success">>
       /\ Len(SelectSeq(events, LAMBDA e : e = <<"setup", "complete">>)) <= 1
       /\ result = "setup_failed" => StatusesOf(failStep) = <<"loading", "error">>
  /\ mode # "interactive" => events = <<>>

C8_Witness ==
  /\ mode = "interactive" /\ result = "setup_failed" /\ failStep = "certs"
  /\ StatusesOf("validate") = <<"loading", "success">>
  /\ StatusesOf("certs") = <<"loading", "error">>
  /\ StatusesOf("dns") = <<>>

\* C9: the DNS step never returns an error, whatever Setup and Test of the
\* resolver returned; setup can fail at the DNS step only by its timeout,
\* and a resolver error leaves the step successful.
C9_DNSBestEffort ==
  /\ stepTask["dns"] # "err"
  /\ failStep = "dns" => failKind = "timeout"
  /\ (dnsSetupRes = "err" \/ dnsTestRes = "err") => stepTask["dns"] = "ok"
  /\ (running /\ cfg.EnableDNS /\ ResolverDomain # "localhost") => dnsSetupRes \in {"ok", "err"}

C9_Witness ==
  running /\ dnsSetupRes = "err" /\ ~dnsmasqInstalled /\ stepTask["dns"] = "ok"

StopReturnedOnProcess == stopPc = "returned" /\ cmdStarted

\* C3 (amended): Stop on a started process never returns without having
\* made one termination-signal call, which reaches the process unless the
\* child was already reaped; it makes exactly one force-kill call when the
\* grace period expired and none otherwise.
C3_SignalledBeforeReturn ==
  StopReturnedOnProcess =>
     /\ termCalls = 1
     /\ ~termDelivered => childState = "reaped"
     /\ killCalls = (IF timedOut THEN 1 ELSE 0)

\* C3 (as claimed): Stop on a started process never returns without a
\* termination signal having been sent to the process.
C3_SignalDelivered ==
  StopReturnedOnProcess => (termDelivered /\ killCalls = (IF timedOut THEN 1 ELSE 0))

C3_Witness ==
  StopReturnedOnProcess /\ timedOut /\ killCalls = 1 /\ termCalls = 1 /\ termDelivered

\* C4: once a PID was assigned, no process of the child's process group is
\* alive after Stop has returned.
C4_NoOrphanAfterStop ==
  StopReturnedOnProcess => (childState # "running" /\ ~groupAlive)

\* C5 (as claimed): Stop returns success whenever the process exited during
\* the sequence, and an error only if the force-kill itself failed.
C5_ErrorOnlyIfKillFailed ==
  StopReturnedOnProcess =>
     /\ (stopResult = "error" => killFailed)
     /\ ((childState # "running" /\ ~killFailed) => stopResult = "ok")

\* C5 (amended): Stop returns success exactly when cmd.Wait returned before
\* the grace period expired (the child is then no longer running), and the
\* error "process killed after timeout" whenever the grace period expired,
\* whether the force-kill succeeded or failed.
C5_ErrorIffGraceExpired ==
  stopPc = "returned" =>
     /\ stopResult \in {"ok", "error"}
     /\ (stopResult = "error" <=> timedOut)
     /\ (stopResult = "error" <=> killCalls = 1)
     /\ ((stopResult = "ok" /\ cmdStarted) => childState # "running")

C5_Witness ==
  StopReturnedOnProcess /\ stopResult = "error" /\ ~killFailed /\ childState # "running"

\* Run / RunHeadless has returned the error of runSetup or startServices.
RunFailed == pc = "returned" /\ result \in {"setup_failed", "start_failed"}

\* C15: once the run has returned, by shutdown or with a setup or
\* service-start failure, the allocator holds no reservation.
C15_NoReservationAfterRun ==
  (ShutdownReturned \/ RunFailed) => allocatedPorts = {}

\* A pinned HTTP port that cannot be bound, and a Ports step that is over.
PinnedHTTPTaken == cfg.HTTPPort # 0 /\ cfg.HTTPPort \in osBusy
PortsStepOver == stepTask["ports"] \notin {"idle", "running"}

\* C16: with a pinned HTTP port that is not available, the Ports step
\* fails, the certificate and DNS steps never run, and no port is reserved,
\* no DNS registration made, no proxy and no backend process started.
C16_PinnedHTTPTakenFails ==
  PinnedHTTPTaken =>
     /\ PortsStepOver => stepTask["ports"] = "err"
     /\ stepTask["certs"] = "idle" /\ stepTask["dns"] = "idle"
     /\ allocatedPorts = {}
     /\ certLog = <<>> /\ dnsCalled = {} /\ ~dnsConfigured /\ hostsEntries = 0
     /\ proxyServer = "nil" /\ proxyListener = "none"
     /\ ~cmdStarted /\ ~running
     /\ result \in {"none", "setup_failed"}

C16_Witness ==
  /\ PinnedHTTPTaken /\ stepTask["ports"] = "err"
  /\ pc = "returned" /\ result = "setup_failed"
  /\ failStep = "ports" /\ failKind = "failed"

\* C17: after the Ports step has succeeded, the clean-URL flag is set
\* exactly when the HTTPS port of the session is 443.
C17_CleanURLIff443 ==
  stepTask["ports"] = "ok" => (cfg.UsePort443 <=> httpsPort = Port443)

C17_Witness ==
  /\ stepTask["ports"] = "ok" /\ cfg.HTTPSPort = 0 /\ Port443 \in osBusy
  /\ httpsPort = PreferredHTTPSPort /\ ~cfg.UsePort443

\* C18: with HTTPS disabled the certificate step makes no call of the
\* manager (no validation, no run of the certificate-authority tool) and
\* leaves the certificate and key paths as they were; with HTTPS enabled it
\* makes one EnsureCertificate call with force = false for the session
\* domain, "localhost" when the domain is empty.
C18_CertStepCall ==
  stepTask["certs"] \in {"ok", "err"} =>
     IF ~cfg.EnableHTTPS
       THEN /\ certLog = <<>> /\ mkcertRuns = 0
            /\ cfg.CertPath = "" /\ cfg.KeyPath = ""
            /\ stepTask["certs"] = "ok"
       ELSE /\ Len(certLog) = 1
            /\ certLog[1].op = "EnsureCertificate" /\ ~certLog[1].force
            /\ certLog[1].domain = IF cfg.Domain = "" THEN "localhost" ELSE cfg.Domain

C18_Witness ==
  /\ stepTask["certs"] = "ok" /\ ~cfg.EnableHTTPS /\ certLog = <<>>
  /\ certFile = "expired"

\* C19: when DNS is disabled, or the domain is empty or "localhost", no step
\* of the session calls the resolver's Setup or Test, no registration is
\* made, and nothing (the Cleanup of shutdown included) changes the host
\* mappings.
C19_DNSSkipped ==
  [][(~cfg.EnableDNS \/ cfg.Domain \in {"", "localhost"}) =>
        /\ dnsCalled' \subseteq {"Cleanup"}
        /\ ~dnsConfigured'
        /\ hostsEntries' = hostsEntries]_vars

C19_Witness ==
  /\ ShutdownReturned /\ ~cfg.EnableDNS /\ stepTask["dns"] = "ok"
  /\ "Cleanup" \in dnsCalled /\ hostsEntries = 1

\* C23: when the certificate-authority tool is absent, NewApp fails and
\* nothing of the session happens: no setup step runs, no port is reserved,
\* no resolver or manager call is made, no proxy and no backend is started.
C23_NoToolNoSession ==
  ~mkcertInstalled =>
     /\ result \in {"none", "newapp_failed"}
     /\ \A n \in StepSet : stepTask[n] = "idle"
     /\ allocatedPorts = {} /\ httpPort = 0 /\ httpsPort = 0
     /\ dnsCalled = {} /\ ~dnsConfigured /\ certLog = <<>>
     /\ proxyServer = "nil" /\ proxyListener = "none"
     /\ ~cmdStarted /\ ~running /\ events = <<>>

C23_Witness ==
  ~mkcertInstalled /\ pc = "returned" /\ result = "newapp_failed"

\* The readiness wait of Start is under way.
InWaitForReady == pc \in {"sv_proxy_wait", "sv_proxy_dial"}

C25_FailFastOnBadCert ==
  proxyListener = "cert_failed" =>
     /\ ~InEvents(<<"proxy", "success">>)
     /\ ~(failStep = "proxy" /\ failKind = "timeout")

\* C28: once the backend process has been started, the only way on for
\* service start is success: the session becomes Running, whether the wait
\* for the backend port met a listener or expired.
C28_ReadinessNotFatal ==
  /\ [](failStep = "dev" => failKind = "failed")
  /\ [][(pc = "sv_ready" /\ pc' # pc) =>
          /\ pc' = "run_wait" /\ running'
          /\ result' = "none"
          /\ mode = "interactive" => InEvents(<<"server", "started">>)']_vars

C28_Witness ==
  /\ running /\ pc = "run_wait" /\ cmdStarted /\ childState = "reaped"
  /\ exitEvents = <<1>>
  /\ InEvents(<<"dev", "success">>) /\ InEvents(<<"server", "started">>)

\* C29: once the completion watcher has returned it has emitted exactly
\* one exit event, and the event carries the exit code of the child,
\* whichever of the watcher and Stop reaped the child.
C29_ExitEventCarriesCode ==
  watcher = "returned" => exitEvents = <<childExitCode>>

\* C34: the select of runSetup never waits beyond the step's timer; when
\* the timer wins, the step is reported failed while its task is left
\* running, and a task that is running can always take its next step,
\* finish and put its result on stepDone, also after runSetup has returned.
C34_AbandonedStepFinishes ==
  /\ pc = "setup_parked" => ENABLED StepTimerFire
  /\ (result = "setup_failed" /\ failKind = "timeout") =>
        /\ stepTask[failStep] \in {"running", "ok", "err"}
        /\ stepTask[failStep] = "running" <=> stepDone = "empty"
        /\ stepTask[failStep] # "running" => stepDone = stepTask[failStep]
  /\ stepTask["validate"] = "running" => ENABLED StepValidate
  /\ stepTask["ports"] = "running" => ENABLED StepPorts
  /\ stepTask["certs"] = "running" => ENABLED StepCerts
  /\ stepTask["dns"] = "running" => ENABLED StepDNS

C34_Witness ==
  /\ pc = "returned" /\ result = "setup_failed" /\ failKind = "timeout"
  /\ selChoice = "timer" /\ failStep = "certs"
  /\ stepTask["certs"] = "ok" /\ stepDone = "ok" /\ mkcertRuns = 1

\* C35: from the success of the Ports step until shutdown releases the
\* ports, the HTTP port and the HTTPS port of the session differ and both
\* are reserved in the allocator.
C35_DistinctReservedPorts ==
  (stepTask["ports"] = "ok" /\ ~InLog(<<"ports", "begin">>)) =>
     /\ httpPort # httpsPort
     /\ httpPort \in allocatedPorts /\ httpsPort \in allocatedPorts

\* C36: once the run has returned, with the error of setup or of service
\* start or from a shutdown in which no step failed, nothing of the session
\* is left: the proxy does not listen, the child does not run, and the
\* resolver's registration is gone.
C36_EverythingUndoneOnReturn ==
  (pc = "returned" /\ result \in {"setup_failed", "start_failed", "ok"}) =>
     /\ proxyListener \notin {"starting", "bound", "serving"}
     /\ childState # "running"
     /\ ~(dnsConfigured /\ hostsEntries > 0)

\* C37: setup fails with "step ... timed out after 30 seconds" only when
\* the step's 30-second timer fired, never because the session context was
\* cancelled.
C37_TimeoutOnlyAfterBound ==
  (result = "setup_failed" /\ failKind = "timeout") => selChoice = "timer"

\* C38: the running flag is set, and the server-started message sent, only
\* in a session whose four setup steps succeeded, whose proxy (when
\* enabled) was started with success and whose backend was started with
\* success; it is never set in a session that failed in setup or in
\* service start.
C38_RunningOnlyAfterSuccess ==
  /\ running =>
       /\ \A n \in StepSet : stepTask[n] = "ok"
       /\ stepIdx = Len(StepNames)
       /\ cfg.EnableProxy => (proxyServer = "created" /\ InEvents(<<"proxy", "success">>))
       /\ cmdStarted
       /\ failStep = "none"
       /\ result \in {"none", "ok", "shutdown_errors"}
       /\ mode = "interactive" => InEvents(<<"server", "started">>)
  /\ InEvents(<<"server", "started">>) => running
  /\ result \in {"newapp_failed", "setup_failed", "start_failed"} => ~running

C38_Witness ==
  /\ running /\ pc = "run_wait" /\ cfg.EnableProxy /\ proxyListener = "serving"
  /\ childState = "running" /\ InEvents(<<"server", "started">>)
  /\ InEvents(<<"setup", "complete">>)

\* C39: with no UI program attached, service start after a successful
\* setup never fails on the missing program or supervisor: the run ends
\* only by a start error or by shutdown, as it does with a program attached.
C39_HeadlessStartsServices ==
  mode = "headless" => result \in {"none", "newapp_failed", "setup_failed", "start_failed",
                                   "ok", "shutdown_errors"}

\* C40: when Start has returned success, the proxy's own listener was
\* bound: a dial answered by another listener, after the proxy's bind
\* failed, does not make Start return success.
C40_SuccessMeansOwnListener ==
  InEvents(<<"proxy", "success">>) => proxyListener # "bind_failed"

\* The child is confirmed stopped: a Wait has reaped it, in the completion
\* watcher or in a Stop that returned nil.
ConfirmedStopped ==
  /\ cmdStarted /\ childState = "reaped"
  /\ watcher = "returned" \/ (stopPc = "returned" /\ stopResult = "ok")

\* C33: GetPID is 0 before the start, the child's PID while it runs, and 0
\* again once the child is confirmed stopped.
C33_HandleClearedWhenStopped ==
  \A pid \in PidChoices :
    /\ ~cmdStarted => (GetPID(pid) = 0 /\ ~IsRunning)
    /\ childState = "running" => (GetPID(pid) = pid /\ IsRunning)
    /\ ConfirmedStopped => GetPID(pid) = 0

\* The teardown steps whose failure can be read off the state after
\* shutdown: Stop returned an error; the resolver is configured and its
\* host mapping is still there.
FailedSteps ==
  (IF stopResult = "error" THEN {"runner"} ELSE {}) \cup
  (IF dnsConfigured /\ hostsEntries > 0 THEN {"dns"} ELSE {})

\* C30: shutdown returns nil exactly when no teardown step failed, and
\* otherwise one aggregate error listing each failed step once: the backend
\* stop when Stop returned an error, the DNS cleanup when it failed, the
\* proxy stop only when there was a proxy to stop.
C30_AggregateError ==
  ShutdownReturned =>
     LET listed == {errs[i] : i \in 1..Len(errs)}
     IN /\ listed \ {"proxy"} = FailedSteps
        /\ "proxy" \in listed => proxyServer # "nil"
        /\ Cardinality(listed) = Len(errs)
        /\ result = "ok" <=> errs = <<>>
        /\ result = "shutdown_errors" <=> Len(errs) >= 1

C30_Witness ==
  ShutdownReturned /\ errs = <<"runner", "proxy", "dns">> /\ result = "shutdown_errors"

====
